---- MODULE Spec2Model ----
(***************************************************************************)
(* A model of two programs of the repository:                              *)
(*                                                                         *)
(*   - py_toolbox "mcp-serve": the JSON-RPC 2.0 server that reads requests *)
(*     from standard input line by line and writes responses to standard   *)
(*     output (src/py_toolbox/main.py);                                    *)
(*   - mcp_hub: the tool registry served over HTTP, one table of           *)
(*     RegisteredTool rows (src/mcp_hub/api/routes.py).                    *)
(*                                                                         *)
(* Each program has its own specification: Spec (mcp-serve) and SpecHub.   *)
(***************************************************************************)
EXTENDS Integers, Sequences, FiniteSets, TLC

VARIABLES
    \* ---- mcp-serve ----
    pc,         \* where the serve loop stands: "read", "handle" or "done"
    line,       \* the line last read from standard input, after strip()
    lineNo,     \* how many lines have been read from standard input
    stdout,     \* the writes made to standard output, in order
    answered,   \* for each write, the number of the line that was being served
    nonblank,   \* the numbers of the non-blank lines read, in order
    invoked,    \* the tool invoke made while serving the last line, if any
    \* ---- mcp_hub ----
    rows,       \* the committed rows of the table registered_tools
    clock,      \* the time of day, in ticks
    sess,       \* for each server worker, the request it is serving
    lastResp,   \* the HTTP response sent last
    lastBeat,   \* the last write of a last_heartbeat_at: the row's id and the tick
    \* ---- py_toolbox: sources, tools and the command line ----
    pool,       \* for each source, its _pool or _driver: NoPool, or which one it is
    made,       \* for each source, how many pools or drivers it has constructed
    last,       \* the outcome of the last call made on a source or a tool
    cli,        \* the command being run, and the sources closed when it finished
    \* ---- py_toolbox: the start of a command ----
    boot,       \* the configuration read, what was loaded from it, and the
                \* registration requests made when mcp-serve started
    \* ---- the SDK tools ----
    li,         \* a ToolboxTool of the LlamaIndex SDK and its last call
    lc          \* a ToolboxTool of the LangChain SDK and its last call

mcpVars == <<pc, line, lineNo, stdout, answered, nonblank, invoked>>

hubVars == <<rows, clock, sess, lastResp, lastBeat>>

tbVars == <<pool, made, last, cli>>

bootVars == <<boot>>

sdkVars == <<li, lc>>

vars == <<mcpVars, hubVars, tbVars, bootVars, sdkVars>>

(***************************************************************************)
(* Bounds of the model.                                                    *)
(***************************************************************************)
\* How many lines standard input delivers before it ends.
MaxLines == 2

\* How many ticks the clock makes.
MaxClock == 2

\* How many ticks make one second, the unit of the database's clock.
TicksPerSecond == 2

\* The largest row id the table hands out.
MaxId == 2

\* The most pools or drivers a source constructs.
MaxPools == 2

\* The longest list of authentication services.
MaxAuth == 2

(***************************************************************************)
(* JSON values.  A member that an object does not have is Absent; a JSON   *)
(* value that is not a string (a number, say) is JNumber; None is JNull.   *)
(***************************************************************************)
Absent == "<absent>"
JNull == "<null>"
JNumber == "<number 5>"

IsStr(v) == v \notin {Absent, JNull, JNumber}

\* The characters a write can end with.
NL == "\n"
BACKSLASH == "\\"

(***************************************************************************)
(* JSON-RPC 2.0 error codes.                                               *)
(***************************************************************************)
JSONRPC_PARSE_ERROR == -32700
JSONRPC_INVALID_REQUEST == -32600
JSONRPC_METHOD_NOT_FOUND == -32601
JSONRPC_INVALID_PARAMS == -32602
JSONRPC_INTERNAL_ERROR == -32603

(***************************************************************************)
(* The tools loaded from the configuration: name -> auth_required.         *)
(***************************************************************************)
initialized_tools ==
    [ask_sqlite_version |-> {}, secured_tool |-> {"google_auth"}]

ToolNames == DOMAIN initialized_tools

\* Mutant: every tool is authorized whatever has been verified.
is_authorized_Always(tool, verified) == TRUE

\* Tool.is_authorized(verified): no requirement, or one of them verified.
is_authorized(tool, verified) ==
    \/ initialized_tools[tool] = {}
    \/ \E req_auth \in initialized_tools[tool] : req_auth \in verified

(***************************************************************************)
(* What Tool.invoke can do: return rows that json.dumps can serialise,     *)
(* return rows it cannot (a datetime or Decimal column), or raise.         *)
(***************************************************************************)
InvokeOutcomes ==
    {"rows", "rows_not_serializable", "ValueError", "ConnectionError", "Exception"}

NoInvoke == [tool |-> Absent, outcome |-> Absent]

\* json.dumps(response_obj) raises TypeError exactly for such a result.
Serializable(response_obj) ==
    ~ ("result" \in DOMAIN response_obj /\ response_obj.result = "rows_not_serializable")

(***************************************************************************)
(* The lines standard input can deliver, after strip().                    *)
(***************************************************************************)
NoParams == [kind |-> Absent, tool_name |-> Absent,
             invoke_params |-> Absent, tool_params |-> Absent]

ArrayParams == [kind |-> "array", tool_name |-> Absent,
                invoke_params |-> Absent, tool_params |-> Absent]

ToolNameValues ==
    {Absent, JNumber, "ask_sqlite_version", "secured_tool", "non_existent_tool"}

\* Values of params for get_tool_description, which reads tool_name alone.
DescribeParams ==
    {NoParams, ArrayParams}
    \cup [kind : {"object"}, tool_name : ToolNameValues,
          invoke_params : {Absent}, tool_params : {Absent}]

\* Values of params for invoke_tool.
InvokeParams ==
    {NoParams, ArrayParams}
    \cup [kind : {"object"}, tool_name : ToolNameValues,
          invoke_params : {Absent, "array", "object"},
          tool_params : {Absent, "array", "object"}]

\* A line that is not a JSON object: blank, not JSON at all, or another JSON value.
NonObjectLine(k) ==
    [kind |-> k, jsonrpc |-> Absent, method |-> Absent, id |-> Absent,
     params |-> NoParams]

Lines ==
    {NonObjectLine(k) : k \in {"blank", "garbage", "array", "number", "string", "null"}}
    \cup [kind : {"object"}, jsonrpc : {Absent, "1.0", "2.0"},
          method : {Absent, "list_tools", "no_such_method"},
          id : {Absent, "req-1"}, params : {NoParams}]
    \cup [kind : {"object"}, jsonrpc : {"2.0"}, method : {JNumber},
          id : {Absent, "req-1"}, params : {NoParams, ArrayParams}]
    \cup [kind : {"object"}, jsonrpc : {"2.0"}, method : {"get_tool_description"},
          id : {Absent, "req-1"}, params : DescribeParams]
    \cup [kind : {"object"}, jsonrpc : {"2.0"}, method : {"invoke_tool"},
          id : {Absent, "req-1"}, params : InvokeParams]

\* dict.get("id"): None when the member is absent.
GetId(request_obj) ==
    IF request_obj.id = Absent THEN JNull ELSE request_obj.id

(***************************************************************************)
(* Responses.                                                              *)
(***************************************************************************)
create_jsonrpc_success_response(request_id, result) ==
    [jsonrpc |-> "2.0", result |-> result, id |-> request_id]

\* Python's None where a dictionary is expected (the default of data).
None == [none |-> TRUE]

create_jsonrpc_error_response(request_id, code, message, data) ==
    [jsonrpc |-> "2.0",
     error |-> IF data = None
               THEN [code |-> code, message |-> message]
               ELSE [code |-> code, message |-> message, data |-> data],
     id |-> request_id]

(***************************************************************************)
(* mcp_handle_request(request_obj): the response to a request that is an   *)
(* object with jsonrpc "2.0" and a method.  outcome is what the tool's     *)
(* invoke does if the request gets as far as invoking it.  The value is    *)
(* the response together with the invoke that was made.                    *)
(***************************************************************************)
\* request_obj.get("params", {}): an empty dictionary when absent.
GetParams(request_obj) ==
    IF request_obj.params.kind = Absent
    THEN [kind |-> "object", tool_name |-> Absent,
          invoke_params |-> Absent, tool_params |-> Absent]
    ELSE request_obj.params

\* params.get("invoke_params", params.get("tool_params", {})): the kind of value.
ActualToolParams(params) ==
    IF params.invoke_params # Absent THEN params.invoke_params
    ELSE IF params.tool_params # Absent THEN params.tool_params
    ELSE "object"

Answer(response) == [response |-> response, invoked |-> NoInvoke]

HandleListTools(request_id) ==
    Answer(create_jsonrpc_success_response(request_id, "tools_list"))

\* Mutant: a tool that is not loaded is reported as invalid params.
HandleGetToolDescription_NotFoundAsInvalid(request_id, params) ==
    IF params.kind # "object" \/ params.tool_name = Absent \/ ~IsStr(params.tool_name)
       \/ params.tool_name \notin ToolNames
    THEN Answer(create_jsonrpc_error_response(request_id, JSONRPC_INVALID_PARAMS,
                    "Invalid params: 'tool_name' (string) is required.", None))
    ELSE Answer(create_jsonrpc_success_response(request_id, "mcp_manifest"))

HandleGetToolDescription(request_id, params) ==
    IF params.kind # "object" \/ params.tool_name = Absent \/ ~IsStr(params.tool_name)
    THEN Answer(create_jsonrpc_error_response(request_id, JSONRPC_INVALID_PARAMS,
                    "Invalid params: 'tool_name' (string) is required.", None))
    ELSE IF params.tool_name \notin ToolNames
    THEN Answer(create_jsonrpc_error_response(request_id, JSONRPC_METHOD_NOT_FOUND,
                    "Tool not found.", None))
    ELSE Answer(create_jsonrpc_success_response(request_id, "mcp_manifest"))

\* Mutant: no "except ValueError" clause; "except Exception" answers instead.
InvokeErrorResponse_ValueAsInternal(request_id, tool_name, outcome) ==
    IF outcome = "ConnectionError"
    THEN create_jsonrpc_error_response(request_id, JSONRPC_INTERNAL_ERROR,
             "Connection error for tool",
             [tool_name |-> tool_name, type |-> "ConnectionError"])
    ELSE create_jsonrpc_error_response(request_id, JSONRPC_INTERNAL_ERROR,
             "Error during tool execution",
             [tool_name |-> tool_name, type |-> outcome])

\* The except clauses around the invoke: which response an exception becomes.
InvokeErrorResponse(request_id, tool_name, outcome) ==
    IF outcome = "ConnectionError"
    THEN create_jsonrpc_error_response(request_id, JSONRPC_INTERNAL_ERROR,
             "Connection error for tool",
             [tool_name |-> tool_name, type |-> "ConnectionError"])
    ELSE IF outcome = "ValueError"
    THEN create_jsonrpc_error_response(request_id, JSONRPC_INVALID_PARAMS,
             "Invalid parameters or value for tool",
             [tool_name |-> tool_name, type |-> "ValueError"])
    ELSE create_jsonrpc_error_response(request_id, JSONRPC_INTERNAL_ERROR,
             "Error during tool execution",
             [tool_name |-> tool_name, type |-> outcome])

\* The try block of invoke_tool: the authorization check, then the invoke.
InvokeLoadedTool(request_id, tool_name, outcome) ==
    IF ~is_authorized(tool_name, {})
    THEN Answer(
           IF initialized_tools[tool_name] # {}
           THEN create_jsonrpc_error_response(request_id, JSONRPC_INTERNAL_ERROR,
                    "Tool not authorized.",
                    [reason |-> "authorization_failed",
                     required |-> initialized_tools[tool_name]])
           ELSE create_jsonrpc_error_response(request_id, JSONRPC_INTERNAL_ERROR,
                    "Tool authorization logic error.", None))
    ELSE [response |->
            IF outcome \in {"rows", "rows_not_serializable"}
            THEN create_jsonrpc_success_response(request_id, outcome)
            ELSE InvokeErrorResponse(request_id, tool_name, outcome),
          invoked |-> [tool |-> tool_name, outcome |-> outcome]]

HandleInvokeTool(request_id, params, outcome) ==
    IF params.kind # "object"
    THEN Answer(create_jsonrpc_error_response(request_id, JSONRPC_INVALID_PARAMS,
                    "Invalid params: Expected an object.", None))
    ELSE IF ~IsStr(params.tool_name)
    THEN Answer(create_jsonrpc_error_response(request_id, JSONRPC_INVALID_PARAMS,
                    "Invalid params: 'tool_name' (string) is required.", None))
    ELSE IF ActualToolParams(params) # "object"
    THEN Answer(create_jsonrpc_error_response(request_id, JSONRPC_INVALID_PARAMS,
                    "Invalid params: 'invoke_params' must be an object.", None))
    ELSE IF params.tool_name \notin ToolNames
    THEN Answer(create_jsonrpc_error_response(request_id, JSONRPC_METHOD_NOT_FOUND,
                    "Tool not found.", None))
    ELSE InvokeLoadedTool(request_id, params.tool_name, outcome)

mcp_handle_request(request_obj, outcome) ==
    LET request_id == GetId(request_obj)
        method == request_obj.method
        params == GetParams(request_obj)
    IN  IF method = "list_tools" THEN HandleListTools(request_id)
        ELSE IF method = "get_tool_description"
        THEN HandleGetToolDescription(request_id, params)
        ELSE IF method = "invoke_tool"
        THEN HandleInvokeTool(request_id, params, outcome)
        ELSE Answer(create_jsonrpc_error_response(request_id, JSONRPC_METHOD_NOT_FOUND,
                        "Method not found.", None))

(***************************************************************************)
(* mcp_serve_cmd: the serve loop.                                          *)
(***************************************************************************)
\* Mutant: no "except json.JSONDecodeError" clause; "except Exception" answers.
ParseErrorResponse_AsInternal ==
    create_jsonrpc_error_response(JNull, JSONRPC_INTERNAL_ERROR,
        "Internal server error", None)

\* json.loads(line) raises JSONDecodeError.
ParseErrorResponse ==
    create_jsonrpc_error_response(JNull, JSONRPC_PARSE_ERROR,
        "Failed to parse JSON request.", None)

\* "except Exception as e": the response to an exception raised in the try block.
UnexpectedErrorResponse(request_id) ==
    create_jsonrpc_error_response(request_id, JSONRPC_INTERNAL_ERROR,
        "Internal server error", None)

\* Mutant: the error carries request_id, which is still None at that point.
InvalidRequestResponse_NullId(request_obj) ==
    create_jsonrpc_error_response(JNull, JSONRPC_INVALID_REQUEST,
        "Invalid JSON-RPC 2.0 request structure.", None)

\* The request fails the structure test and request_obj is a dictionary.
InvalidRequestResponse(request_obj) ==
    create_jsonrpc_error_response(GetId(request_obj), JSONRPC_INVALID_REQUEST,
        "Invalid JSON-RPC 2.0 request structure.", None)

\* json.loads raises JSONDecodeError: the text is no JSON document (or is empty).
ParseFails(l) == l.kind \in {"garbage", "blank"}

\* not isinstance(request_obj, dict) or request_obj.get("jsonrpc") != "2.0"
\*     or "method" not in request_obj
InvalidStructure(request_obj) ==
    \/ request_obj.kind # "object"
    \/ request_obj.jsonrpc # "2.0"
    \/ request_obj.method = Absent

(***************************************************************************)
(* The try block of one iteration: request_id as the iteration leaves it,  *)
(* the response object, and the invoke that was made.  For a JSON value    *)
(* that is not an object the structure test is true and the error branch   *)
(* evaluates request_obj.get("id"), which raises AttributeError: the       *)
(* "except Exception" clause answers, with request_id still None.          *)
(***************************************************************************)
ProcessLine(l, outcome) ==
    IF ParseFails(l)
    THEN [request_id |-> JNull, response_obj |-> ParseErrorResponse,
          invoked |-> NoInvoke]
    ELSE IF InvalidStructure(l)
    THEN [request_id |-> JNull,
          response_obj |-> IF l.kind # "object"
                           THEN UnexpectedErrorResponse(JNull)
                           ELSE InvalidRequestResponse(l),
          invoked |-> NoInvoke]
    ELSE LET h == mcp_handle_request(l, outcome)
         IN  [request_id |-> GetId(l), response_obj |-> h.response,
              invoked |-> h.invoked]

\* sys.stdout.write(response_str + "\\n"): the characters after the JSON text.
\* The source writes the two characters backslash and n.
Terminator == <<BACKSLASH, "n">>

\* The fallback written when json.dumps(response_obj) raises.
FallbackError(request_id) ==
    [jsonrpc |-> "2.0",
     error |-> [code |-> JSONRPC_INTERNAL_ERROR,
                message |-> "Fatal: Response serialization failed."],
     id |-> request_id]

\* Mutant: nothing is written when json.dumps(response_obj) raises.
WriteResponse_NoFallback(p) ==
    IF Serializable(p.response_obj)
    THEN <<[json |-> p.response_obj, end |-> Terminator]>>
    ELSE <<>>

\* The writes one iteration makes for its response object.
WriteResponse(p) ==
    IF Serializable(p.response_obj)
    THEN <<[json |-> p.response_obj, end |-> Terminator]>>
    ELSE <<[json |-> FallbackError(p.request_id), end |-> Terminator]>>

\* "if not line: continue"
IsBlank(l) == l.kind = "blank"

InitMcp ==
    /\ pc = "read"
    /\ line = NonObjectLine("blank")
    /\ lineNo = 0
    /\ stdout = <<>>
    /\ answered = <<>>
    /\ nonblank = <<>>
    /\ invoked = NoInvoke

\* "for line in sys.stdin": the next line is read and stripped; a blank one is skipped.
ReadLine(l) ==
    /\ pc = "read"
    /\ lineNo < MaxLines
    /\ lineNo' = lineNo + 1
    /\ line' = l
    /\ invoked' = NoInvoke
    /\ pc' = IF IsBlank(l) THEN "read" ELSE "handle"
    /\ nonblank' = IF l.kind = "blank" THEN nonblank ELSE Append(nonblank, lineNo + 1)
    /\ UNCHANGED <<stdout, answered, hubVars, tbVars, bootVars, sdkVars>>

\* The body of the loop for a non-blank line: parse, dispatch, write.
HandleLine(outcome) ==
    /\ pc = "handle"
    /\ LET p == ProcessLine(line, outcome)
           w == WriteResponse(p)
       IN  /\ stdout' = stdout \o w
           /\ answered' = answered \o [i \in 1..Len(w) |-> lineNo]
           /\ invoked' = p.invoked
    /\ pc' = "read"
    /\ UNCHANGED <<line, lineNo, nonblank, hubVars, tbVars, bootVars, sdkVars>>

\* Standard input ends: the loop is left.
EndOfInput ==
    /\ pc = "read"
    /\ pc' = "done"
    /\ UNCHANGED <<line, lineNo, stdout, answered, nonblank, invoked, hubVars, tbVars, bootVars, sdkVars>>

NextMcp ==
    \/ \E l \in Lines : ReadLine(l)
    \/ \E outcome \in InvokeOutcomes : HandleLine(outcome)
    \/ EndOfInput

(***************************************************************************)
(* mcp_hub: the registry.  A handler makes up to three database round      *)
(* trips, each a step here: the SELECT of its query, the flush and COMMIT, *)
(* and the SELECT of db.refresh.  One server process runs each handler to  *)
(* its end (the handlers never await), so its requests are served one      *)
(* after another: SpecHub.  Several server processes on the one SQLite     *)
(* file overlap their requests between round trips: SpecHubOverlap.        *)
(***************************************************************************)
Workers == {"w1", "w2"}

\* The one process of a single-process server.
SingleWorker == {"w1"}

MicroserviceIds == {"ms_1"}

HubToolNames == {"tool_a", "tool_b"}

\* The bodies a registration request can carry for a pair: ToolRegistrationRequest.
Payloads ==
    {[description |-> "Initial description",
      invocation_info |-> "run_v1",
      mcp_manifest |-> [name |-> "manifest", description |-> Absent,
                        input_schema |-> Absent]],
     [description |-> "Updated description",
      invocation_info |-> "run_v2",
      mcp_manifest |-> [name |-> "manifest", description |-> "v2 manifest",
                        input_schema |-> "schema_with_new_param"]]}

\* The body that the overlapping requests of several processes carry.
OverlapPayloads ==
    {p \in Payloads : p.description = "Initial description"}

NoPayload ==
    [description |-> Absent, invocation_info |-> Absent,
     mcp_manifest |-> [name |-> Absent, description |-> Absent,
                       input_schema |-> Absent]]

\* McpManifestModel.model_dump(exclude_none=True): the defaults are filled in.
model_dump(m) ==
    [name |-> m.name,
     description |-> IF m.description = Absent THEN "" ELSE m.description,
     input_schema |-> IF m.input_schema = Absent THEN "schema_default_object"
                      ELSE m.input_schema]

\* func.now(): CURRENT_TIMESTAMP of the SQLite database, in whole seconds.
DbNow == clock \div TicksPerSecond

\* No row: the value of db_tool when .first() returns None.
NoRow == 0

RowIds == 1..MaxId

\* query.filter(microservice_id == ..., tool_name == ...).first(), as the row's id.
FindByPair(rs, microservice_id, tool_name) ==
    LET found == {r \in rs : r.microservice_id = microservice_id
                             /\ r.tool_name = tool_name}
    IN  IF found = {} THEN NoRow ELSE (CHOOSE r \in found : TRUE).id

\* query.filter(id == tool_id).first(), as the row's id.
FindById(rs, tool_id) ==
    IF \E r \in rs : r.id = tool_id THEN tool_id ELSE NoRow

RowWithId(rs, tool_id) == CHOOSE r \in rs : r.id = tool_id

\* The id an INSERT gets: INTEGER PRIMARY KEY, one more than the largest in use.
NextRowId(rs) ==
    IF rs = {} THEN 1
    ELSE (CHOOSE i \in {r.id : r \in rs} : \A r \in rs : r.id <= i) + 1

\* Mutant: the table has no unique constraint.
ViolatesUnique_NoConstraint(rs, microservice_id, tool_name) == FALSE

\* UniqueConstraint('microservice_id', 'tool_name'): an INSERT of the pair fails.
ViolatesUnique(rs, microservice_id, tool_name) ==
    \E r \in rs : r.microservice_id = microservice_id /\ r.tool_name = tool_name

Idle ==
    [op |-> "none", pc |-> "idle", microservice_id |-> Absent, tool_name |-> Absent,
     payload |-> NoPayload, db_tool |-> NoRow, status |-> 0]

\* Responses: the status and, of the body, the members the properties read.
NoResponse ==
    [op |-> "none", status |-> 0, id |-> NoRow,
     tool_name |-> Absent, microservice_id |-> Absent, registered_at |-> -1]

Respond(w, op, status) ==
    [NoResponse EXCEPT !.op = op, !.status = status]

\* A response whose body is taken from row r.
RespondRow(w, op, status, r) ==
    [op |-> op, status |-> status, id |-> r.id,
     tool_name |-> r.tool_name, microservice_id |-> r.microservice_id,
     registered_at |-> r.registered_at]

InitHub ==
    /\ rows = {}
    /\ clock = 0
    /\ sess = [w \in Workers |-> Idle]
    /\ lastResp = NoResponse
    /\ lastBeat = [id |-> NoRow, tick |-> 0]

\* Time passes.
Tick ==
    /\ clock < MaxClock
    /\ clock' = clock + 1
    /\ UNCHANGED <<rows, sess, lastResp, lastBeat, mcpVars, tbVars, bootVars, sdkVars>>

(***************************************************************************)
(* register_tool: POST /tools.                                             *)
(***************************************************************************)
\* The query for the pair.
RegisterQuery(w, microservice_id, tool_name, payload) ==
    /\ sess[w].pc = "idle"
    /\ sess' = [sess EXCEPT ![w] =
                  [op |-> "register", pc |-> "queried",
                   microservice_id |-> microservice_id, tool_name |-> tool_name,
                   payload |-> payload,
                   db_tool |-> FindByPair(rows, microservice_id, tool_name),
                   status |-> 201]]
    /\ UNCHANGED <<rows, clock, lastResp, lastBeat, mcpVars, tbVars, bootVars, sdkVars>>

\* Mutant: an update that writes the row anew, registration time included.
UpdatedRow_Reinserted(r, payload) ==
    [r EXCEPT !.description = payload.description,
              !.mcp_manifest = model_dump(payload.mcp_manifest),
              !.invocation_info = payload.invocation_info,
              !.registered_at = DbNow,
              !.last_heartbeat_at = DbNow]

\* The row an update leaves: description, manifest, invocation info and
\* heartbeat are overwritten.
UpdatedRow(r, payload) ==
    [r EXCEPT !.description = payload.description,
              !.mcp_manifest = model_dump(payload.mcp_manifest),
              !.invocation_info = payload.invocation_info,
              !.last_heartbeat_at = DbNow]

\* The row an insert adds; registered_at is the server default.
NewRow(rs, microservice_id, tool_name, payload) ==
    [id |-> NextRowId(rs),
     tool_name |-> tool_name,
     microservice_id |-> microservice_id,
     description |-> payload.description,
     mcp_manifest |-> model_dump(payload.mcp_manifest),
     invocation_info |-> payload.invocation_info,
     registered_at |-> DbNow,
     last_heartbeat_at |-> DbNow]

\* db.commit() of an update: the UPDATE names the row by its id.  No row of
\* that id is left: StaleDataError, rollback, 500.
RegisterCommitUpdate(w) ==
    /\ sess[w].op = "register" /\ sess[w].pc = "queried"
    /\ sess[w].db_tool # NoRow
    /\ IF \E r \in rows : r.id = sess[w].db_tool
       THEN LET r == RowWithId(rows, sess[w].db_tool)
            IN  /\ rows' = (rows \ {r}) \cup {UpdatedRow(r, sess[w].payload)}
                /\ lastBeat' = [id |-> r.id, tick |-> clock]
                /\ sess' = [sess EXCEPT ![w].pc = "committed", ![w].status = 200]
                /\ UNCHANGED lastResp
       ELSE /\ sess' = [sess EXCEPT ![w] = Idle]
            /\ lastResp' = Respond(w, "register", 500)
            /\ UNCHANGED <<rows, lastBeat>>
    /\ UNCHANGED <<clock, mcpVars, tbVars, bootVars, sdkVars>>

\* db.commit() of an insert.  The unique constraint fails: IntegrityError,
\* rollback, 409.
RegisterCommitInsert(w) ==
    /\ sess[w].op = "register" /\ sess[w].pc = "queried"
    /\ sess[w].db_tool = NoRow
    /\ IF ViolatesUnique(rows, sess[w].microservice_id, sess[w].tool_name)
       THEN /\ sess' = [sess EXCEPT ![w] = Idle]
            /\ lastResp' = Respond(w, "register", 409)
            /\ UNCHANGED <<rows, lastBeat>>
       ELSE LET r == NewRow(rows, sess[w].microservice_id, sess[w].tool_name,
                            sess[w].payload)
            IN  /\ r.id <= MaxId
                /\ rows' = rows \cup {r}
                /\ lastBeat' = [id |-> r.id, tick |-> clock]
                /\ sess' = [sess EXCEPT ![w].pc = "committed", ![w].db_tool = r.id]
                /\ UNCHANGED lastResp
    /\ UNCHANGED <<clock, mcpVars, tbVars, bootVars, sdkVars>>

\* db.refresh(db_tool) and the response.  The row is gone: InvalidRequestError,
\* caught by "except Exception", 500.
RegisterRefresh(w) ==
    /\ sess[w].op = "register" /\ sess[w].pc = "committed"
    /\ lastResp' =
         IF \E r \in rows : r.id = sess[w].db_tool
         THEN RespondRow(w, "register", sess[w].status,
                         RowWithId(rows, sess[w].db_tool))
         ELSE Respond(w, "register", 500)
    /\ sess' = [sess EXCEPT ![w] = Idle]
    /\ UNCHANGED <<rows, clock, lastBeat, mcpVars, tbVars, bootVars, sdkVars>>

(***************************************************************************)
(* tool_heartbeat: POST /tools/heartbeat/{microservice_id}/{tool_name}.    *)
(***************************************************************************)
\* Mutant: a heartbeat for a pair without a row registers the pair.
HeartbeatQuery_Creates(w, microservice_id, tool_name) ==
    /\ sess[w].pc = "idle"
    /\ LET db_tool == FindByPair(rows, microservice_id, tool_name)
       IN  IF db_tool = NoRow
           THEN /\ rows' = rows \cup {NewRow(rows, microservice_id, tool_name,
                                              NoPayload)}
                /\ lastResp' = Respond(w, "heartbeat", 404)
                /\ UNCHANGED sess
           ELSE /\ sess' = [sess EXCEPT ![w] =
                              [Idle EXCEPT !.op = "heartbeat", !.pc = "queried",
                                           !.microservice_id = microservice_id,
                                           !.tool_name = tool_name,
                                           !.db_tool = db_tool, !.status = 200]]
                /\ UNCHANGED <<rows, lastResp>>
    /\ UNCHANGED <<clock, lastBeat, mcpVars, tbVars, bootVars, sdkVars>>

HeartbeatQuery(w, microservice_id, tool_name) ==
    /\ sess[w].pc = "idle"
    /\ LET db_tool == FindByPair(rows, microservice_id, tool_name)
       IN  IF db_tool = NoRow
           THEN /\ lastResp' = Respond(w, "heartbeat", 404)
                /\ UNCHANGED sess
           ELSE /\ sess' = [sess EXCEPT ![w] =
                              [Idle EXCEPT !.op = "heartbeat", !.pc = "queried",
                                           !.microservice_id = microservice_id,
                                           !.tool_name = tool_name,
                                           !.db_tool = db_tool, !.status = 200]]
                /\ UNCHANGED lastResp
    /\ UNCHANGED <<rows, clock, lastBeat, mcpVars, tbVars, bootVars, sdkVars>>

\* db.commit(): UPDATE ... SET last_heartbeat_at = now WHERE id = ...
HeartbeatCommit(w) ==
    /\ sess[w].op = "heartbeat" /\ sess[w].pc = "queried"
    /\ IF \E r \in rows : r.id = sess[w].db_tool
       THEN LET r == RowWithId(rows, sess[w].db_tool)
            IN  /\ rows' = (rows \ {r}) \cup {[r EXCEPT !.last_heartbeat_at = DbNow]}
                /\ lastBeat' = [id |-> r.id, tick |-> clock]
                /\ sess' = [sess EXCEPT ![w].pc = "committed"]
                /\ UNCHANGED lastResp
       ELSE /\ sess' = [sess EXCEPT ![w] = Idle]
            /\ lastResp' = Respond(w, "heartbeat", 500)
            /\ UNCHANGED <<rows, lastBeat>>
    /\ UNCHANGED <<clock, mcpVars, tbVars, bootVars, sdkVars>>

\* db.refresh(db_tool) and the response.
HeartbeatRefresh(w) ==
    /\ sess[w].op = "heartbeat" /\ sess[w].pc = "committed"
    /\ lastResp' =
         IF \E r \in rows : r.id = sess[w].db_tool
         THEN [Respond(w, "heartbeat", 200)
                 EXCEPT !.tool_name = sess[w].tool_name,
                        !.microservice_id = sess[w].microservice_id]
         ELSE Respond(w, "heartbeat", 500)
    /\ sess' = [sess EXCEPT ![w] = Idle]
    /\ UNCHANGED <<rows, clock, lastBeat, mcpVars, tbVars, bootVars, sdkVars>>

(***************************************************************************)
(* GET /tools/{segment}: the router picks the first route, in the order of *)
(* declaration, whose path matches; the endpoint's parameters are          *)
(* validated after the route is picked.                                    *)
(***************************************************************************)
\* The decimal numerals of the row ids, by value.
Numerals == <<"1", "2", "3", "4", "5", "6", "7", "8", "9">>

\* The last segment of the requested path: a row id or the word lookup.
PathSegments == {Numerals[i] : i \in RowIds} \cup {"lookup"}

\* Validation of the path parameter tool_id: int.
IsInt(segment) == \E i \in 1..Len(Numerals) : Numerals[i] = segment

IntOf(segment) == CHOOSE i \in 1..Len(Numerals) : Numerals[i] = segment

\* The GET routes with a segment after /tools, in the order of declaration.
GetRoutes ==
    <<[path |-> "/tools/{tool_id}", endpoint |-> "get_tool_detail"],
      [path |-> "/tools/lookup", endpoint |-> "get_tool_by_microservice_and_name"]>>

\* A path parameter matches any one segment; a literal matches itself.
PathMatches(route, segment) ==
    \/ route.path = "/tools/{tool_id}"
    \/ route.path = "/tools/lookup" /\ segment = "lookup"

\* The endpoint of the first route that matches.
RouteFor(segment) ==
    LET first == CHOOSE i \in 1..Len(GetRoutes) :
                     /\ PathMatches(GetRoutes[i], segment)
                     /\ \A j \in 1..(i - 1) : ~PathMatches(GetRoutes[j], segment)
    IN  GetRoutes[first].endpoint

\* get_tool_detail: 422 when tool_id is no integer, 404 when no row has the id.
get_tool_detail(w, segment) ==
    IF ~IsInt(segment) THEN Respond(w, "get", 422)
    ELSE IF FindById(rows, IntOf(segment)) = NoRow THEN Respond(w, "get", 404)
    ELSE RespondRow(w, "get", 200, RowWithId(rows, IntOf(segment)))

\* get_tool_by_microservice_and_name: 404 when the pair has no row.
get_tool_by_microservice_and_name(w, microservice_id, tool_name) ==
    IF FindByPair(rows, microservice_id, tool_name) = NoRow
    THEN Respond(w, "get", 404)
    ELSE RespondRow(w, "get", 200,
                    RowWithId(rows, FindByPair(rows, microservice_id, tool_name)))

\* GET /tools/{segment}?microservice_id=...&tool_name=...
GetTool(w, segment, microservice_id, tool_name) ==
    /\ sess[w].pc = "idle"
    /\ lastResp' =
         IF RouteFor(segment) = "get_tool_detail"
         THEN get_tool_detail(w, segment)
         ELSE get_tool_by_microservice_and_name(w, microservice_id, tool_name)
    /\ UNCHANGED <<rows, clock, sess, lastBeat, mcpVars, tbVars, bootVars, sdkVars>>

(***************************************************************************)
(* delete_tool: DELETE /tools/{tool_id}.                                   *)
(***************************************************************************)
DeleteQuery(w, tool_id) ==
    /\ sess[w].pc = "idle"
    /\ LET db_tool == FindById(rows, tool_id)
       IN  IF db_tool = NoRow
           THEN /\ lastResp' = Respond(w, "delete", 404)
                /\ UNCHANGED sess
           ELSE /\ sess' = [sess EXCEPT ![w] =
                              [Idle EXCEPT !.op = "delete", !.pc = "queried",
                                           !.db_tool = db_tool, !.status = 204]]
                /\ UNCHANGED lastResp
    /\ UNCHANGED <<rows, clock, lastBeat, mcpVars, tbVars, bootVars, sdkVars>>

\* Mutant: the DELETE has no WHERE clause.
DeleteCommit_All(w) ==
    /\ sess[w].op = "delete" /\ sess[w].pc = "queried"
    /\ rows' = {}
    /\ lastResp' = [Respond(w, "delete", 204) EXCEPT !.id = sess[w].db_tool]
    /\ sess' = [sess EXCEPT ![w] = Idle]
    /\ UNCHANGED <<clock, lastBeat, mcpVars, tbVars, bootVars, sdkVars>>

\* db.delete(db_tool); db.commit(): DELETE ... WHERE id = ...; a row that is
\* gone already is a warning only.
DeleteCommit(w) ==
    /\ sess[w].op = "delete" /\ sess[w].pc = "queried"
    /\ rows' = {r \in rows : r.id # sess[w].db_tool}
    /\ lastResp' = [Respond(w, "delete", 204) EXCEPT !.id = sess[w].db_tool]
    /\ sess' = [sess EXCEPT ![w] = Idle]
    /\ UNCHANGED <<clock, lastBeat, mcpVars, tbVars, bootVars, sdkVars>>

\* The steps of the requests that the workers in ws serve, with bodies from ps.
Requests(ws, ps) ==
    \/ \E w \in ws, m \in MicroserviceIds, n \in HubToolNames, p \in ps :
          RegisterQuery(w, m, n, p)
    \/ \E w \in ws : RegisterCommitUpdate(w)
    \/ \E w \in ws : RegisterCommitInsert(w)
    \/ \E w \in ws : RegisterRefresh(w)
    \/ \E w \in ws, m \in MicroserviceIds, n \in HubToolNames :
          HeartbeatQuery(w, m, n)
    \/ \E w \in ws : HeartbeatCommit(w)
    \/ \E w \in ws : HeartbeatRefresh(w)
    \/ \E w \in ws, i \in RowIds : DeleteQuery(w, i)
    \/ \E w \in ws : DeleteCommit(w)

\* The read requests that the workers in ws serve.
Reads(ws) ==
    \E w \in ws, segment \in PathSegments,
       m \in MicroserviceIds, n \in HubToolNames :
        GetTool(w, segment, m, n)

\* One server process: the requests are served one after another.
NextHub == Tick \/ Requests(SingleWorker, Payloads) \/ Reads(SingleWorker)

\* Several server processes: the requests overlap.
NextHubOverlap == Tick \/ Requests(Workers, OverlapPayloads)

(***************************************************************************)
(* py_toolbox: the sources.  A source holds a connection pool (Postgres,   *)
(* MySQL) or a driver (Neo4j) in _pool or _driver, None until connect.     *)
(***************************************************************************)
SourceNames == {"pg_db", "mysql_db", "neo4j_db"}

SourceKind == [pg_db |-> "postgres", mysql_db |-> "mysql", neo4j_db |-> "neo4j"]

\* _pool is None.
NoPool == 0

\* What the database driver does when asked to connect.
ConnectOutcomes == {"ok", "driver_error"}

\* The exception of the database driver of a kind of source.
DriverError(kind) ==
    CASE kind = "postgres" -> "psycopg2.Error"
      [] kind = "mysql" -> "mysql.connector.Error"
      [] kind = "neo4j" -> "neo4j.exceptions.ServiceUnavailable"

\* The outcome of a call: what it raised, and the state it leaves.
Returns(p, m) == [pool |-> p, made |-> m, raised |-> "none"]

Raises(p, m, exception) == [pool |-> p, made |-> m, raised |-> exception]

\* Mutant: connect without the test for an existing pool.
connect_Always(kind, p, m, outcome) ==
    IF outcome = "ok" THEN Returns(m + 1, m + 1)
    ELSE Raises(NoPool, m, DriverError(kind))

\* Source.connect.  The Postgres and MySQL pools connect in their
\* constructor, so a failure leaves nothing constructed; the Neo4j driver is
\* constructed first and fails in verify_connectivity.
connect(kind, p, m, outcome) ==
    IF p # NoPool THEN Returns(p, m)
    ELSE IF outcome = "ok" THEN Returns(m + 1, m + 1)
    ELSE IF kind = "neo4j" THEN Raises(NoPool, m + 1, DriverError(kind))
    ELSE Raises(NoPool, m, DriverError(kind))

\* What closing the pool or driver does.  closeall of a Postgres pool passes
\* over the errors of its connections and the MySQL source only forgets its
\* pool; the close of a Neo4j driver can fail.
CloseOutcomes(kind) == IF kind = "neo4j" THEN {"ok", "close_error"} ELSE {"ok"}

\* Source.close.
close(kind, p, m, outcome) ==
    IF p = NoPool THEN Returns(p, m)
    ELSE IF outcome = "ok" THEN Returns(NoPool, m)
    ELSE Raises(p, m, "neo4j.exceptions.DriverError")

\* PostgresSource.get_connection and MySQLSource.get_connection up to the
\* yield, and the Neo4jSource.driver property.
acquire(kind, p, m, outcome) ==
    LET connected == IF p = NoPool THEN connect(kind, p, m, outcome)
                     ELSE Returns(p, m)
    IN  IF connected.raised # "none" THEN connected
        ELSE IF connected.pool = NoPool
             THEN Raises(connected.pool, connected.made, "ConnectionError")
        ELSE connected

\* The outcome of a call, as the model records it.
NoCall ==
    [op |-> "none", name |-> Absent, raised |-> "none",
     commits |-> 0, rollbacks |-> 0, value |-> Absent, authorized |-> FALSE,
     args |-> <<>>, putbacks |-> 0]

CallOn(op, name, raised) ==
    [NoCall EXCEPT !.op = op, !.name = name, !.raised = raised]

InitTb ==
    /\ pool = [s \in SourceNames |-> NoPool]
    /\ made = [s \in SourceNames |-> 0]
    /\ last = NoCall
    /\ cli = [pc |-> "running", closed |-> {}]

\* The effect of a call on source s with outcome r.
SourceCall(s, op, r) ==
    /\ cli.pc = "running"
    /\ r.made <= MaxPools
    /\ pool' = [pool EXCEPT ![s] = r.pool]
    /\ made' = [made EXCEPT ![s] = r.made]
    /\ last' = CallOn(op, s, r.raised)
    /\ UNCHANGED <<cli, mcpVars, hubVars, bootVars, sdkVars>>

Connect(s, outcome) ==
    SourceCall(s, "connect", connect(SourceKind[s], pool[s], made[s], outcome))

Close(s, outcome) ==
    SourceCall(s, "close", close(SourceKind[s], pool[s], made[s], outcome))

\* with source.get_connection(): pass, and source.driver.
Acquire(s, outcome) ==
    SourceCall(s, "acquire", acquire(SourceKind[s], pool[s], made[s], outcome))

\* The calls made on the sources.
SourceCalls ==
    \/ \E s \in SourceNames, outcome \in ConnectOutcomes : Connect(s, outcome)
    \/ \E s \in SourceNames : \E outcome \in CloseOutcomes(SourceKind[s]) :
          Close(s, outcome)
    \/ \E s \in SourceNames, outcome \in ConnectOutcomes : Acquire(s, outcome)

(***************************************************************************)
(* py_toolbox: the SQL tools of Postgres and MySQL.                        *)
(***************************************************************************)
SqlTools == {"pg_tool", "mysql_tool"}

\* The kind of source a tool requires, and the class of the tool.
RequiredSourceKind == [pg_tool |-> "postgres", mysql_tool |-> "mysql"]

ToolClass == [pg_tool |-> "PostgresSQLTool", mysql_tool |-> "MySQLSQLTool"]

\* The source each tool was initialized with.
ToolSource == [pg_tool |-> "pg_db", mysql_tool |-> "mysql_db"]

\* Mutant: initialize without the test of the source's class.
initialize_AnyKind(tool, source_name, sources) ==
    IF source_name \notin sources
    THEN [raised |-> "ValueError", value |-> Absent]
    ELSE [raised |-> "none", value |-> ToolClass[tool]]

\* PostgresSQLConfig.initialize and MySQLSQLConfig.initialize: sources is the
\* set of names of the initialized sources.
initialize(tool, source_name, sources) ==
    IF source_name \notin sources
    THEN [raised |-> "ValueError", value |-> Absent]
    ELSE IF SourceKind[source_name] # RequiredSourceKind[tool]
    THEN [raised |-> "ValueError", value |-> Absent]
    ELSE [raised |-> "none", value |-> ToolClass[tool]]

\* The names a tool's configuration can give for its source.
ConfiguredSourceNames == SourceNames \cup {"missing_db"}

Initialize(tool, source_name, sources) ==
    /\ cli.pc = "running"
    /\ LET r == initialize(tool, source_name, sources)
       IN  last' = [CallOn("initialize", tool, r.raised)
                      EXCEPT !.value = r.value, !.args = <<source_name, sources>>]
    /\ UNCHANGED <<pool, made, cli, mcpVars, hubVars, bootVars, sdkVars>>

\* The authentication services, and the lists of them up to MaxAuth long.
AuthServices == {"google_auth", "internal_auth"}

AuthLists == UNION {[1..n -> AuthServices] : n \in 0..MaxAuth}

Range(list) == {list[i] : i \in 1..Len(list)}

\* The loop of is_authorized: the first required service that is verified.
RECURSIVE AnyVerified(_, _)
AnyVerified(auth_required, verified) ==
    IF auth_required = <<>> THEN FALSE
    ELSE IF Head(auth_required) \in Range(verified) THEN TRUE
    ELSE AnyVerified(Tail(auth_required), verified)

\* Mutant: every required service has to be verified.
sql_tool_is_authorized_All(auth_required, verified) ==
    \A i \in 1..Len(auth_required) : auth_required[i] \in Range(verified)

\* PostgresSQLTool.is_authorized and MySQLSQLTool.is_authorized.
sql_tool_is_authorized(auth_required, verified) ==
    IF auth_required = <<>> THEN TRUE
    ELSE AnyVerified(auth_required, verified)

IsAuthorized(tool, auth_required, verified) ==
    /\ cli.pc = "running"
    /\ last' = [CallOn("is_authorized", tool, "none")
                  EXCEPT !.authorized = sql_tool_is_authorized(auth_required,
                                                               verified),
                         !.args = <<auth_required, verified>>]
    /\ UNCHANGED <<pool, made, cli, mcpVars, hubVars, bootVars, sdkVars>>

\* Statements, as their words.
Statements ==
    {<<>>, <<"SELECT", "1">>, <<"select", "1">>, <<"INSERT", "INTO", "t">>}

\* str.upper on a word.
Upper(word) == IF word = "select" THEN "SELECT" ELSE word

\* sql_statement.strip().upper().startswith("SELECT")
StartsWithSelect(statement) == Upper(statement[1]) = "SELECT"

\* What the database does with the statement.
ExecuteOutcomes == {"ok", "db_error"}

\* A connection taken from a psycopg2 pool: keyed while it is checked out.
PgConnection == [keyed |-> TRUE, closed |-> FALSE]

\* pool.putconn(conn, close): a connection that is not checked out is refused.
putconn(conn, closeIt) ==
    IF ~conn.keyed THEN [conn |-> conn, raised |-> "psycopg2.pool.PoolError"]
    ELSE [conn |-> [keyed |-> FALSE, closed |-> closeIt], raised |-> "none"]

\* The end of PostgresSource.get_connection when the body raised a
\* psycopg2.Error: the except clause puts the connection back and closes it,
\* then the finally clause puts it back once more.
PgExitOnError(conn, exception) ==
    LET first == putconn(conn, TRUE)
        second == putconn(first.conn, FALSE)
    IN  [conn |-> second.conn,
         raised |-> IF second.raised # "none" THEN second.raised ELSE exception]

\* The outcome of an invoke.
InvokeResult(p, m, raised, commits, rollbacks, value) ==
    [pool |-> p, made |-> m, raised |-> raised,
     commits |-> commits, rollbacks |-> rollbacks, value |-> value]

\* The result of a statement: rows when the cursor has a description.
ResultOf(statement) == IF StartsWithSelect(statement) THEN "rows" ELSE "rowcount"

\* PostgresSQLTool.invoke from get_connection on.  The handler of
\* psycopg2.Error runs after the with block has been left; its rollback is
\* called on the connection that the source has put back.
PgExecute(p, m, statement, execute_outcome) ==
    IF execute_outcome = "ok"
    THEN InvokeResult(p, m, "none", 1, 0, ResultOf(statement))
    ELSE InvokeResult(p, m, PgExitOnError(PgConnection, "psycopg2.Error").raised,
                      0, 1, Absent)

\* A connection taken from a mysql.connector pool: a wrapper of the
\* connection, which close() gives back to the pool and lets go of.
MyConnection == [cnx |-> "open"]

MyClose(conn) == [cnx |-> "none"]

\* conn.is_connected(): the wrapper passes the call on to its connection.
is_connected(conn) ==
    IF conn.cnx = "none" THEN "AttributeError"
    ELSE IF conn.cnx = "lost" THEN "False"
    ELSE "True"

\* The end of MySQLSource.get_connection: the finally clause closes the
\* connection when it is connected.
MyExit(conn) == IF is_connected(conn) = "True" THEN MyClose(conn) ELSE conn

\* MySQLSQLTool.invoke from get_connection on.  The handler of
\* mysql.connector.Error runs after the with block has been left, and asks
\* the connection whether it is connected before it rolls back.
MyExecute(p, m, statement, execute_outcome) ==
    IF execute_outcome = "ok"
    THEN InvokeResult(p, m, "none", IF StartsWithSelect(statement) THEN 0 ELSE 1,
                      0, ResultOf(statement))
    ELSE LET connected == is_connected(MyExit(MyConnection))
         IN  IF connected = "True"
             THEN InvokeResult(p, m, "mysql.connector.Error", 0, 1, Absent)
             ELSE InvokeResult(p, m, connected, 0, 0, Absent)

\* Tool.invoke: the statement, the connect of an unconnected source, then
\* the execution.
invoke(tool, p, m, statement, connect_outcome, execute_outcome) ==
    IF statement = <<>> THEN InvokeResult(p, m, "ValueError", 0, 0, Absent)
    ELSE LET kind == RequiredSourceKind[tool]
             c == connect(kind, p, m, connect_outcome)
         IN  IF c.raised # "none"
             THEN InvokeResult(c.pool, c.made, "ConnectionError", 0, 0, Absent)
             ELSE IF kind = "postgres"
             THEN PgExecute(c.pool, c.made, statement, execute_outcome)
             ELSE MyExecute(c.pool, c.made, statement, execute_outcome)

Invoke(tool, statement, connect_outcome, execute_outcome) ==
    LET s == ToolSource[tool]
        r == invoke(tool, pool[s], made[s], statement, connect_outcome,
                    execute_outcome)
    IN  /\ cli.pc = "running"
        /\ r.made <= MaxPools
        /\ pool' = [pool EXCEPT ![s] = r.pool]
        /\ made' = [made EXCEPT ![s] = r.made]
        /\ last' = [CallOn("invoke", tool, r.raised)
                      EXCEPT !.commits = r.commits, !.rollbacks = r.rollbacks,
                             !.value = r.value]
        /\ UNCHANGED <<cli, mcpVars, hubVars, bootVars, sdkVars>>

\* What pool.getconn() / pool.get_connection() does, and what the body of
\* the with block does: it ends, the database refuses a statement, the
\* connection to the database is lost, or the body raises something else.
GetconnOutcomes == {"ok", "pool_error"}

BodyOutcomes == {"ok", "db_error", "db_error_lost", "other_error"}

\* The outcome of a with block on get_connection: whether a connection was
\* taken, and how many times it was handed to putconn (Postgres) or closed,
\* which gives it back to the pool (MySQL).
ConnectionUse(p, m, raised, taken, putbacks) ==
    [pool |-> p, made |-> m, raised |-> raised, taken |-> taken,
     putbacks |-> putbacks]

\* with source.get_connection() as conn: <body>, for the Postgres and the
\* MySQL source.
get_connection(kind, p, m, connect_outcome, getconn_outcome, body_outcome) ==
    LET a == acquire(kind, p, m, connect_outcome)
    IN  IF a.raised # "none"
        THEN ConnectionUse(a.pool, a.made, a.raised, FALSE, 0)
        ELSE IF getconn_outcome # "ok"
        THEN ConnectionUse(a.pool, a.made, DriverError(kind), FALSE, 0)
        ELSE IF body_outcome = "ok"
        THEN ConnectionUse(a.pool, a.made, "none", TRUE, 1)
        ELSE IF body_outcome = "other_error"
        THEN ConnectionUse(a.pool, a.made, "Exception", TRUE, 1)
        ELSE IF kind = "postgres"
        THEN ConnectionUse(a.pool, a.made,
                 PgExitOnError(PgConnection, DriverError(kind)).raised, TRUE, 2)
        ELSE LET conn == IF body_outcome = "db_error_lost"
                         THEN [cnx |-> "lost"] ELSE MyConnection
             IN  ConnectionUse(a.pool, a.made, DriverError(kind), TRUE,
                     IF MyExit(conn) = MyClose(conn) THEN 1 ELSE 0)

\* The sources that hand out connections.
PooledSources == {s \in SourceNames : SourceKind[s] \in {"postgres", "mysql"}}

UseConnection(s, connect_outcome, getconn_outcome, body_outcome) ==
    LET r == get_connection(SourceKind[s], pool[s], made[s], connect_outcome,
                            getconn_outcome, body_outcome)
    IN  /\ cli.pc = "running"
        /\ r.made <= MaxPools
        /\ pool' = [pool EXCEPT ![s] = r.pool]
        /\ made' = [made EXCEPT ![s] = r.made]
        /\ last' = [CallOn("get_connection", s, r.raised)
                      EXCEPT !.value = IF r.taken THEN "conn" ELSE Absent,
                             !.putbacks = r.putbacks,
                             !.args = <<body_outcome>>]
        /\ UNCHANGED <<cli, mcpVars, hubVars, bootVars, sdkVars>>

ConnectionUses ==
    \E s \in PooledSources, connect_outcome \in ConnectOutcomes,
       getconn_outcome \in GetconnOutcomes, body_outcome \in BodyOutcomes :
        UseConnection(s, connect_outcome, getconn_outcome, body_outcome)

\* The calls on the tools that leave the sources alone.
ToolChecks ==
    \/ \E tool \in SqlTools, source_name \in ConfiguredSourceNames,
          sources \in SUBSET SourceNames :
          Initialize(tool, source_name, sources)
    \/ \E tool \in SqlTools, auth_required \in AuthLists, verified \in AuthLists :
          IsAuthorized(tool, auth_required, verified)

\* The invokes of the tools.
ToolInvokes ==
    \E tool \in SqlTools, statement \in Statements,
       connect_outcome \in ConnectOutcomes,
       execute_outcome \in ExecuteOutcomes :
        Invoke(tool, statement, connect_outcome, execute_outcome)

(***************************************************************************)
(* py_toolbox: the end of a command.  The group's result callback runs     *)
(* cleanup_sources_on_exit when the command returns; a command that leaves *)
(* through ctx.exit or sys.exit raises, and the callback is not run.       *)
(***************************************************************************)
Commands == {"list-tools", "invoke-tool", "mcp-serve"}

\* How a command can end.
Endings(command) ==
    IF command = "list-tools" THEN {"returns"} ELSE {"returns", "exits"}

\* initialized_sources, in the order of the configuration file.
initialized_sources == <<"neo4j_db", "pg_db", "mysql_db">>

\* The loop of cleanup_sources_on_exit: close each source, pass over what a
\* close raises.
RECURSIVE cleanup_sources_on_exit(_, _, _, _)
cleanup_sources_on_exit(names, p, closed, outcomes) ==
    IF names = <<>> THEN [pool |-> p, closed |-> closed]
    ELSE LET s == Head(names)
             r == close(SourceKind[s], p[s], made[s], outcomes[s])
         IN  cleanup_sources_on_exit(Tail(names), [p EXCEPT ![s] = r.pool],
                                     closed \cup {s}, outcomes)

\* What the closes of the sources do, for each source.
CleanupOutcomes ==
    {f \in [SourceNames -> {"ok", "close_error"}] :
        \A s \in SourceNames : f[s] \in CloseOutcomes(SourceKind[s])}

\* The command ends.
Finish(command, ending, outcomes) ==
    /\ cli.pc = "running"
    /\ IF ending = "returns"
       THEN LET r == cleanup_sources_on_exit(initialized_sources, pool, {},
                                             outcomes)
            IN  /\ pool' = r.pool
                /\ cli' = [pc |-> "returned", closed |-> r.closed]
       ELSE /\ cli' = [pc |-> "exited", closed |-> {}]
            /\ UNCHANGED pool
    /\ last' = CallOn("finish", command, "none")
    /\ UNCHANGED <<made, mcpVars, hubVars, bootVars, sdkVars>>

CommandEnds ==
    \E command \in Commands, outcomes \in CleanupOutcomes :
        \E ending \in Endings(command) : Finish(command, ending, outcomes)

\* The life of the sources: connects, closes, invokes and the end of the command.
NextTb == SourceCalls \/ ConnectionUses \/ ToolInvokes \/ CommandEnds

\* The initialization and the authorization of the tools.
NextTools == ToolChecks


(***************************************************************************)
(* py_toolbox: the start of a command.  The group callback loads the       *)
(* sources and the tools from the configuration file; mcp-serve loads them *)
(* again when no tool is loaded, registers the tools with the hub and goes *)
(* on to serve.                                                            *)
(***************************************************************************)
\* The configuration file: missing, not parseable as YAML, or read.
ConfigFiles == {"missing", "unreadable", "ok"}

\* The tools section of the file: the source each tool names.
ToolConfigs == [SqlTools -> ConfiguredSourceNames]

\* No tool is loaded: the empty dictionary.
NoTools == [tool \in {} |-> Absent]

\* SourceRegistry.load_sources_from_config: the sources of the file whose
\* configuration or initialization does not fail (failed), by name.
load_sources_from_config(failed) == SourceNames \ failed

\* ToolRegistry.load_tools_from_config: the tools of the file whose
\* configuration does not fail (failed) and whose initialize accepts the
\* source they name among initialized_sources; each with the source it holds.
load_tools_from_config(tool_sources, failed, initialized_sources_) ==
    LET loaded == {tool \in SqlTools \ failed :
                     initialize(tool, tool_sources[tool],
                                initialized_sources_).raised = "none"}
    IN  [tool \in loaded |-> tool_sources[tool]]

InitBoot ==
    boot = [pc |-> "group", config |-> "missing",
            tool_sources |-> [tool \in SqlTools |-> "missing_db"],
            sources |-> {}, tools |-> NoTools,
            hub |-> FALSE, attempted |-> {}, failed |-> {}]

\* The group callback cli(): the file is loaded when it exists; an exception
\* of a load is reported and the command goes on with what was loaded.
CliGroup(config, tool_sources, failed_sources, failed_tools) ==
    /\ boot.pc = "group"
    /\ LET srcs == IF config = "ok" THEN load_sources_from_config(failed_sources)
                   ELSE {}
           tls == IF config = "ok"
                  THEN load_tools_from_config(tool_sources, failed_tools, srcs)
                  ELSE NoTools
       IN  boot' = [boot EXCEPT !.pc = "command", !.config = config,
                                !.tool_sources = tool_sources,
                                !.sources = srcs, !.tools = tls]
    /\ UNCHANGED <<mcpVars, hubVars, tbVars, sdkVars>>

\* What the hub does with a registration request.
RequestOutcomes == {"201", "200", "other_status", "request_exception"}

\* register_tools_with_hub: the tools for which requests.post was called, and
\* those among them whose request failed.
register_tools_with_hub(hub_api_url, tools_to_register, outcomes) ==
    IF ~hub_api_url \/ DOMAIN tools_to_register = {}
    THEN [attempted |-> {}, failed |-> {}]
    ELSE [attempted |-> DOMAIN tools_to_register,
          failed |-> {tool \in DOMAIN tools_to_register :
                        outcomes[tool] \in {"other_status", "request_exception"}}]

\* The start of mcp_serve_cmd, up to the loop over standard input.  The
\* statements are taken in the order in which they stand: the call of
\* register_tools_with_hub stands in the try block of "if not
\* initialized_tools and os.path.exists(config_path)", after the two loads
\* and before the except clause that ends the command.
McpServeStart(hub_api_url, failed_sources, failed_tools, outcomes) ==
    /\ boot.pc = "command"
    /\ IF DOMAIN boot.tools = {} /\ boot.config # "missing"
       THEN IF boot.config = "unreadable"
            THEN boot' = [boot EXCEPT !.pc = "exited", !.hub = hub_api_url]
            ELSE LET srcs == load_sources_from_config(failed_sources)
                     tls == load_tools_from_config(boot.tool_sources,
                                                   failed_tools, srcs)
                     r == register_tools_with_hub(hub_api_url, tls, outcomes)
                 IN  boot' = [boot EXCEPT !.pc = "serving", !.hub = hub_api_url,
                                          !.sources = srcs, !.tools = tls,
                                          !.attempted = r.attempted,
                                          !.failed = r.failed]
       ELSE boot' = [boot EXCEPT !.pc = "serving", !.hub = hub_api_url]
    /\ UNCHANGED <<mcpVars, hubVars, tbVars, sdkVars>>

NextBoot ==
    \/ \E config \in ConfigFiles, tool_sources \in ToolConfigs,
          failed_sources \in SUBSET SourceNames, failed_tools \in SUBSET SqlTools :
          CliGroup(config, tool_sources, failed_sources, failed_tools)
    \/ \E hub_api_url \in BOOLEAN, failed_sources \in SUBSET SourceNames,
          failed_tools \in SUBSET SqlTools,
          outcomes \in [SqlTools -> RequestOutcomes] :
          McpServeStart(hub_api_url, failed_sources, failed_tools, outcomes)

(***************************************************************************)
(* The LlamaIndex SDK: ToolboxTool.  The tool changes in place: binding a  *)
(* parameter takes it out of the schema, registering auth tokens moves the *)
(* parameters that require authentication out of the schema.               *)
(***************************************************************************)
\* The parameters of the tool's manifest: name and authSources.
ManifestParams ==
    << [name |-> "city", authSources |-> {}],
       [name |-> "user_id", authSources |-> {"google_auth", "internal_auth"}],
       [name |-> "limit", authSources |-> {}],
       [name |-> "tenant", authSources |-> {"internal_auth"}] >>

\* The parameter names a caller can give: those of the manifest and one more.
GivenNames == {ManifestParams[i].name : i \in DOMAIN ManifestParams} \cup {"page"}

\* [param.name for param in self._schema.parameters]
NamesOf(params) == {params[i].name : i \in DOMAIN params}

\* The tool before bind_params and add_auth_tokens have run in __init__.
NewTool ==
    [schema |-> ManifestParams, bound_params |-> {}, auth_tokens |-> {},
     auth_params |-> [name \in {} |-> {}]]

\* __update_params
update_params(tool, params) == [tool EXCEPT !.schema = params]

\* __process_auth_params
process_auth_params(tool) ==
    LET auth == {i \in DOMAIN tool.schema : tool.schema[i].authSources # {}}
        moved == [name \in {tool.schema[i].name : i \in auth} |->
                    (CHOOSE i \in auth : tool.schema[i].name = name) ]
        auth_params ==
            [name \in DOMAIN tool.auth_params \cup DOMAIN moved |->
                IF name \in DOMAIN moved THEN tool.schema[moved[name]].authSources
                ELSE tool.auth_params[name]]
    IN  update_params([tool EXCEPT !.auth_params = auth_params],
                      SelectSeq(tool.schema, LAMBDA param : param.authSources = {}))

\* Mutant: a tool is authenticated as soon as any source is registered.
validate_auth_AnyToken(tool, strict) ==
    LET params_missing_auth ==
            {name \in DOMAIN tool.auth_params : tool.auth_tokens = {}}
    IN  [raised |-> IF params_missing_auth # {} /\ strict
                    THEN "PermissionError" ELSE "none",
         warned |-> params_missing_auth # {} /\ ~strict]

\* __validate_auth
validate_auth(tool, strict) ==
    LET params_missing_auth ==
            {name \in DOMAIN tool.auth_params :
                ~\E src \in tool.auth_params[name] : src \in tool.auth_tokens}
    IN  [raised |-> IF params_missing_auth # {} /\ strict
                    THEN "PermissionError" ELSE "none",
         warned |-> params_missing_auth # {} /\ ~strict]

\* Mutant: the bound parameters stay in the schema.
remove_bound_params_Keep(tool) == tool

\* __remove_bound_params
remove_bound_params(tool) ==
    update_params(tool,
        SelectSeq(tool.schema, LAMBDA param : param.name \notin tool.bound_params))

\* add_auth_tokens: the sources that are new are registered, then the auth
\* parameters are processed, then the duplicates are reported.
add_auth_tokens(tool, auth_tokens) ==
    LET dupe_sources == auth_tokens \cap tool.auth_tokens
        registered == [tool EXCEPT !.auth_tokens = @ \cup auth_tokens]
    IN  [tool |-> process_auth_params(registered),
         raised |-> IF dupe_sources # {} THEN "ValueError" ELSE "none",
         warned |-> FALSE]

\* Mutant: a parameter that requires authentication is refused only when
\* strict.
bind_params_AuthOnlyStrict(tool, bound_params, strict) ==
    LET dupe_params == bound_params \cap tool.bound_params
        invalid_params ==
            {name \in bound_params \ dupe_params :
                \/ name \in DOMAIN tool.auth_params
                \/ \E i \in DOMAIN tool.schema :
                      tool.schema[i].name = name /\ tool.schema[i].authSources # {}}
        missing_params ==
            (bound_params \ (dupe_params \cup invalid_params)) \ NamesOf(tool.schema)
        newly == bound_params \ (dupe_params \cup invalid_params \cup missing_params)
        bound == [tool EXCEPT !.bound_params = @ \cup newly]
        raises == \/ dupe_params # {}
                  \/ (invalid_params \cup missing_params) # {} /\ strict
    IN  [tool |-> remove_bound_params(bound),
         raised |-> IF raises THEN "ValueError" ELSE "none",
         warned |-> ~raises /\ (invalid_params \cup missing_params) # {}]

\* bind_params: each given parameter is a duplicate, or invalid (it requires
\* authentication), or missing from the schema, or is bound; then the bound
\* parameters are taken out of the schema; then the errors are reported.
bind_params(tool, bound_params, strict) ==
    LET dupe_params == bound_params \cap tool.bound_params
        invalid_params ==
            {name \in bound_params \ dupe_params :
                \/ name \in DOMAIN tool.auth_params
                \/ \E i \in DOMAIN tool.schema :
                      tool.schema[i].name = name /\ tool.schema[i].authSources # {}}
        missing_params ==
            (bound_params \ (dupe_params \cup invalid_params)) \ NamesOf(tool.schema)
        newly == bound_params \ (dupe_params \cup invalid_params \cup missing_params)
        bound == [tool EXCEPT !.bound_params = @ \cup newly]
        raises == \/ dupe_params # {}
                  \/ invalid_params # {}
                  \/ missing_params # {} /\ strict
    IN  [tool |-> remove_bound_params(bound),
         raised |-> IF raises THEN "ValueError" ELSE "none",
         warned |-> ~raises /\ missing_params # {}]

\* __init__: bind_params(bound_params, strict=False), add_auth_tokens,
\* __validate_auth(strict=False).
ToolboxTool_init(auth_tokens, bound_params) ==
    LET b == bind_params(NewTool, bound_params, FALSE)
        a == add_auth_tokens(b.tool, auth_tokens)
        v == validate_auth(a.tool, FALSE)
    IN  IF b.raised # "none" THEN b
        ELSE IF a.raised # "none" THEN a
        ELSE [tool |-> a.tool, raised |-> "none", warned |-> b.warned \/ v.warned]

\* What the arguments of a call are to the tool's fn_schema.
KwargsKinds == {"valid", "invalid"}

\* __tool_func: the authentication check, the validation of the arguments
\* and the request to the Toolbox server.
tool_func(tool, kwargs) ==
    LET v == validate_auth(tool, TRUE)
    IN  IF v.raised # "none" THEN [raised |-> v.raised, sent |-> FALSE]
        ELSE IF kwargs = "invalid"
        THEN [raised |-> "ValidationError", sent |-> FALSE]
        ELSE [raised |-> "none", sent |-> TRUE]

\* The last call made on the tool.
LiCall(op, raised, warned, sent, given, strict) ==
    [op |-> op, raised |-> raised, warned |-> warned, sent |-> sent,
     given |-> given, strict |-> strict]

InitLi ==
    li = [built |-> FALSE, tool |-> NewTool,
          last |-> LiCall("none", "none", FALSE, FALSE, {}, FALSE)]

LiConstruct(auth_tokens, bound_params) ==
    /\ ~li.built
    /\ LET r == ToolboxTool_init(auth_tokens, bound_params)
       IN  li' = [built |-> r.raised = "none",
                  tool |-> IF r.raised = "none" THEN r.tool ELSE NewTool,
                  last |-> LiCall("init", r.raised, r.warned, FALSE,
                                  bound_params, FALSE)]
    /\ UNCHANGED <<mcpVars, hubVars, tbVars, bootVars, lc>>

\* bind_params, and bind_param with one parameter.
LiBindParams(bound_params, strict) ==
    /\ li.built
    /\ LET r == bind_params(li.tool, bound_params, strict)
       IN  li' = [li EXCEPT !.tool = r.tool,
                            !.last = LiCall("bind_params", r.raised, r.warned,
                                            FALSE, bound_params, strict)]
    /\ UNCHANGED <<mcpVars, hubVars, tbVars, bootVars, lc>>

\* add_auth_tokens, and add_auth_token with one source.
LiAddAuthTokens(auth_tokens) ==
    /\ li.built
    /\ LET r == add_auth_tokens(li.tool, auth_tokens)
       IN  li' = [li EXCEPT !.tool = r.tool,
                            !.last = LiCall("add_auth_tokens", r.raised, FALSE,
                                            FALSE, auth_tokens, TRUE)]
    /\ UNCHANGED <<mcpVars, hubVars, tbVars, bootVars, lc>>

LiInvoke(kwargs) ==
    /\ li.built
    /\ LET r == tool_func(li.tool, kwargs)
       IN  li' = [li EXCEPT !.last = LiCall("invoke", r.raised, FALSE, r.sent,
                                            {}, TRUE)]
    /\ UNCHANGED <<mcpVars, hubVars, tbVars, bootVars, lc>>

NextLi ==
    \/ \E auth_tokens \in SUBSET AuthServices, bound_params \in SUBSET GivenNames :
          LiConstruct(auth_tokens, bound_params)
    \/ \E bound_params \in SUBSET GivenNames, strict \in BOOLEAN :
          LiBindParams(bound_params, strict)
    \/ \E auth_tokens \in SUBSET AuthServices : LiAddAuthTokens(auth_tokens)
    \/ \E kwargs \in KwargsKinds : LiInvoke(kwargs)

(***************************************************************************)
(* The LangChain SDK: ToolboxTool, a synchronous wrapper of an             *)
(* AsyncToolboxTool.  An object is the function from the names of its      *)
(* attributes to their values.                                             *)
(***************************************************************************)
\* The parameters of the tool's schema, and the names a caller can give.
LcParamNames == {"param1", "param2"}

LcGivenNames == LcParamNames \cup {"param3"}

\* The attributes an AsyncToolboxTool keeps its state in: private to the
\* class, so the names are mangled.
AsyncToolboxTool(name, schema, auth_tokens, bound_params) ==
    [attr \in {"_AsyncToolboxTool__name", "_AsyncToolboxTool__schema",
               "_AsyncToolboxTool__url", "_AsyncToolboxTool__session",
               "_AsyncToolboxTool__auth_tokens",
               "_AsyncToolboxTool__bound_params"} |->
        CASE attr = "_AsyncToolboxTool__name" -> name
          [] attr = "_AsyncToolboxTool__schema" -> schema
          [] attr = "_AsyncToolboxTool__url" -> "http://test_url"
          [] attr = "_AsyncToolboxTool__session" -> "session"
          [] attr = "_AsyncToolboxTool__auth_tokens" -> auth_tokens
          [] attr = "_AsyncToolboxTool__bound_params" -> bound_params]

\* object.attr
getattr(object, attr) ==
    IF attr \in DOMAIN object
    THEN [raised |-> "none", value |-> object[attr]]
    ELSE [raised |-> "AttributeError", value |-> Absent]

\* AsyncToolboxTool(...): the bound parameters leave the schema; a bound
\* parameter that the schema does not have is an error when strict.
AsyncToolboxTool_init(name, schema, auth_tokens, bound_params, strict) ==
    IF strict /\ ~(bound_params \subseteq schema)
    THEN [raised |-> "ValueError", value |-> Absent]
    ELSE [raised |-> "none",
          value |-> AsyncToolboxTool(name, schema \ bound_params, auth_tokens,
                                     bound_params \cap schema)]

\* AsyncToolboxTool.bind_params: a copy of the tool with the parameters
\* bound as well; the tool itself stays as it is.
async_bind_params(async_tool, bound_params, strict) ==
    LET bound == async_tool["_AsyncToolboxTool__bound_params"]
        schema == async_tool["_AsyncToolboxTool__schema"]
    IN  IF \/ bound_params \cap bound # {}
           \/ strict /\ ~(bound_params \subseteq schema)
        THEN [raised |-> "ValueError", value |-> Absent]
        ELSE [raised |-> "none",
              value |-> AsyncToolboxTool(async_tool["_AsyncToolboxTool__name"],
                            schema \ bound_params,
                            async_tool["_AsyncToolboxTool__auth_tokens"],
                            bound \cup (bound_params \cap schema))]

\* AsyncToolboxTool.add_auth_tokens: a copy of the tool with the sources
\* registered as well; the tool itself stays as it is.
async_add_auth_tokens(async_tool, auth_tokens, strict) ==
    LET registered == async_tool["_AsyncToolboxTool__auth_tokens"]
    IN  IF auth_tokens \cap registered # {}
        THEN [raised |-> "ValueError", value |-> Absent]
        ELSE [raised |-> "none",
              value |-> AsyncToolboxTool(async_tool["_AsyncToolboxTool__name"],
                            async_tool["_AsyncToolboxTool__schema"],
                            registered \cup auth_tokens,
                            async_tool["_AsyncToolboxTool__bound_params"])]

\* ToolboxTool(...): the wrapper holds the AsyncToolboxTool made from its
\* arguments.
LcToolboxTool(name, schema, auth_tokens, bound_params, strict) ==
    AsyncToolboxTool_init(name, schema, auth_tokens, bound_params, strict)

\* __from_async_tool: the arguments of the new ToolboxTool are read from the
\* AsyncToolboxTool, in the order they are written.
from_async_tool(async_tool) ==
    LET name == getattr(async_tool, "_name")
        schema == getattr(async_tool, "_schema")
        url == getattr(async_tool, "_url")
        session == getattr(async_tool, "_session")
        auth_tokens == getattr(async_tool, "_auth_tokens")
        bound_params == getattr(async_tool, "_bound_params")
        reads == <<name, schema, url, session, auth_tokens, bound_params>>
    IN  IF \E i \in DOMAIN reads : reads[i].raised # "none"
        THEN [raised |-> reads[CHOOSE i \in DOMAIN reads :
                                  /\ reads[i].raised # "none"
                                  /\ \A j \in 1..(i - 1) : reads[j].raised = "none"].raised,
              value |-> Absent]
        ELSE LcToolboxTool(name.value, schema.value, auth_tokens.value,
                           bound_params.value, FALSE)

\* The last call made on the tool.
LcCall(op, given, strict, inner, result) ==
    [op |-> op, given |-> given, strict |-> strict, inner |-> inner,
     raised |-> result.raised, returned |-> result.value]

InitLc ==
    lc = [built |-> FALSE, bg_loop |-> FALSE, async_tool |-> Absent,
          last |-> LcCall("none", {}, FALSE, "none",
                          [raised |-> "none", value |-> Absent])]

LcConstruct(auth_tokens, bound_params, strict) ==
    /\ ~lc.built
    /\ LET r == LcToolboxTool("test_tool", LcParamNames, auth_tokens,
                              bound_params, strict)
       IN  lc' = [built |-> r.raised = "none",
                  bg_loop |-> r.raised = "none",
                  async_tool |-> r.value,
                  last |-> LcCall("init", bound_params, strict, r.raised,
                                  [raised |-> r.raised, value |-> Absent])]
    /\ UNCHANGED <<mcpVars, hubVars, tbVars, bootVars, li>>

\* The body shared by the methods: the call on the AsyncToolboxTool, then
\* the new ToolboxTool made from what it returned.
LcMethod(op, given, strict, inner) ==
    LET result ==
            IF ~lc.bg_loop THEN [raised |-> "RuntimeError", value |-> Absent]
            ELSE IF inner.raised # "none" THEN inner
            ELSE from_async_tool(inner.value)
    IN  lc' = [lc EXCEPT !.last = LcCall(op, given, strict, inner.raised, result)]

\* bind_params, and bind_param with one parameter.
LcBindParams(bound_params, strict) ==
    /\ lc.built
    /\ LcMethod("bind_params", bound_params, strict,
                async_bind_params(lc.async_tool, bound_params, strict))
    /\ UNCHANGED <<mcpVars, hubVars, tbVars, bootVars, li>>

\* add_auth_tokens, and add_auth_token with one source.
LcAddAuthTokens(auth_tokens, strict) ==
    /\ lc.built
    /\ LcMethod("add_auth_tokens", auth_tokens, strict,
                async_add_auth_tokens(lc.async_tool, auth_tokens, strict))
    /\ UNCHANGED <<mcpVars, hubVars, tbVars, bootVars, li>>

NextLc ==
    \/ \E auth_tokens \in SUBSET AuthServices,
          bound_params \in SUBSET LcGivenNames, strict \in BOOLEAN :
          LcConstruct(auth_tokens, bound_params, strict)
    \/ \E bound_params \in (SUBSET LcGivenNames) \ {{}}, strict \in BOOLEAN :
          LcBindParams(bound_params, strict)
    \/ \E auth_tokens \in (SUBSET AuthServices) \ {{}}, strict \in BOOLEAN :
          LcAddAuthTokens(auth_tokens, strict)

(***************************************************************************)
(* The specifications.                                                     *)
(***************************************************************************)
Init == InitMcp /\ InitHub /\ InitTb /\ InitBoot /\ InitLi /\ InitLc

Spec == Init /\ [][NextMcp]_vars

SpecHub == Init /\ [][NextHub]_vars

SpecHubOverlap == Init /\ [][NextHubOverlap]_vars

SpecTb == Init /\ [][NextTb]_vars

SpecTools == Init /\ [][NextTools]_vars

SpecBoot == Init /\ [][NextBoot]_vars

SpecLi == Init /\ [][NextLi]_vars

SpecLc == Init /\ [][NextLc]_vars

(***************************************************************************)
(* Properties of mcp-serve.                                                *)
(***************************************************************************)
\* The line last read has been served: the loop is back at its head.
Served == pc # "handle" /\ lineNo > 0 /\ line.kind # "blank"

\* The response object of the last write.
LastJson == stdout[Len(stdout)].json

\* The last write was made while serving the line last read.
LastAnswersLine ==
    Len(stdout) > 0 /\ Len(answered) = Len(stdout) /\ answered[Len(answered)] = lineNo

IsError(r) == "error" \in DOMAIN r

IsSuccess(r) == "result" \in DOMAIN r

\* The id a response to line l must carry: the request's id, null without one.
IdOf(l) == IF l.kind = "object" /\ l.id # Absent THEN l.id ELSE JNull

\* C1: whenever the loop is about to read a line, every non-blank line read
\* so far has exactly one response on standard output, the responses are in
\* the order of the lines, and no blank line has one; while a line is being
\* handled, exactly the lines before it have been answered.
C1_OneResponsePerLineInOrder ==
    /\ Len(answered) = Len(stdout)
    /\ pc # "handle" => answered = nonblank
    /\ pc = "handle" => nonblank = Append(answered, lineNo)

\* C1 witness: a blank line was skipped without a response and the line
\* after it was answered once.
C1_Witness ==
    /\ pc = "read" /\ lineNo = 2
    /\ nonblank = <<2>> /\ answered = <<2>> /\ Len(stdout) = 1

\* C2: every response written has jsonrpc "2.0", an id member, and exactly
\* one of result and error; an error has a code and a message; and the
\* response to the line just served carries that request's id, null when the
\* line has none.
C2_ResponseShape ==
    /\ \A i \in 1..Len(stdout) :
          LET r == stdout[i].json
          IN  /\ "jsonrpc" \in DOMAIN r /\ r.jsonrpc = "2.0"
              /\ "id" \in DOMAIN r
              /\ IsSuccess(r) # IsError(r)
              /\ IsError(r) => {"code", "message"} \subseteq DOMAIN r.error
    /\ Served => LastAnswersLine /\ LastJson.id = IdOf(line)

\* C2 witness: an error response that carries the id of its request.
C2_Witness ==
    Served /\ LastAnswersLine /\ IsError(LastJson) /\ LastJson.id = "req-1"

\* C3: a line that is not JSON is answered with code -32700 and id null, and
\* the loop is back at its head, ready for the next line.
C3_ParseErrorAnswered ==
    (Served /\ line.kind = "garbage") =>
        /\ LastAnswersLine
        /\ IsError(LastJson)
        /\ LastJson.error.code = -32700
        /\ LastJson.id = JNull
        /\ pc \in {"read", "done"}

\* C3 witness: after a parse error the next line was served with a result.
C3_Witness ==
    /\ Served /\ Len(stdout) = 2 /\ answered = <<1, 2>>
    /\ IsError(stdout[1].json) /\ stdout[1].json.error.code = -32700
    /\ IsSuccess(stdout[2].json)

\* A line that is JSON but no JSON-RPC 2.0 request.
NotARequest(l) ==
    /\ l.kind \notin {"blank", "garbage"}
    /\ \/ l.kind # "object"
       \/ l.jsonrpc # "2.0"
       \/ l.method = Absent

\* C4: a line that is JSON but no JSON-RPC 2.0 request is answered with
\* code -32600 and the request's id when it has one.
C4_InvalidRequestAnswered ==
    (Served /\ NotARequest(line)) =>
        /\ LastAnswersLine
        /\ IsError(LastJson)
        /\ LastJson.error.code = -32600
        /\ LastJson.id = IdOf(line)

\* A line that is a JSON-RPC 2.0 request.
IsRequest(l) == l.kind = "object" /\ l.jsonrpc = "2.0" /\ l.method # Absent

Methods == {"list_tools", "get_tool_description", "invoke_tool"}

\* The request names a tool (a string) that is not loaded.
NamesUnloadedTool(l) ==
    /\ l.method \in {"get_tool_description", "invoke_tool"}
    /\ l.params.kind = "object"
    /\ IsStr(l.params.tool_name)
    /\ l.params.tool_name \notin ToolNames

\* The arguments of an invoke_tool request are an object: invoke_params when
\* present, else tool_params when present, else the empty default.
ArgumentsAreObject(l) ==
    IF l.params.invoke_params # Absent THEN l.params.invoke_params = "object"
    ELSE l.params.tool_params \in {Absent, "object"}

NotFoundAnswered ==
    /\ LastAnswersLine
    /\ IsError(LastJson)
    /\ LastJson.error.code = -32601
    /\ invoked = NoInvoke

\* C5 as stated: a request with an unknown method, or a get_tool_description
\* or invoke_tool request naming a tool that is not loaded, is answered with
\* code -32601 and no tool is invoked.
C5_Original ==
    (Served /\ IsRequest(line)
        /\ (line.method \notin Methods \/ NamesUnloadedTool(line))) =>
        NotFoundAnswered

\* C5 amended: the same, for an invoke_tool request only when its arguments
\* (invoke_params, or tool_params without one) are absent or an object.
C5_NotFoundAnswered ==
    (Served /\ IsRequest(line)
        /\ \/ line.method \notin Methods
           \/ NamesUnloadedTool(line) /\ line.method = "get_tool_description"
           \/ NamesUnloadedTool(line) /\ line.method = "invoke_tool"
                /\ ArgumentsAreObject(line)) =>
        NotFoundAnswered

\* C5 witness: an invoke_tool request for a tool that is not loaded was
\* answered with -32601.
C5_Witness ==
    /\ Served /\ line.kind = "object" /\ line.method = "invoke_tool"
    /\ NamesUnloadedTool(line) /\ NotFoundAnswered

Raised == {"ValueError", "ConnectionError", "Exception"}

\* C6: when the tool's invoke raised, the response is an error with code
\* -32602 for a ValueError and -32603 for a ConnectionError or any other
\* exception, and the loop is back at its head.
C6_InvokeErrorAnswered ==
    (Served /\ invoked.outcome \in Raised) =>
        /\ LastAnswersLine
        /\ IsError(LastJson)
        /\ LastJson.error.code =
              IF invoked.outcome = "ValueError" THEN -32602 ELSE -32603
        /\ pc \in {"read", "done"}

\* C6 witness: an invoke raised ValueError, was answered, and the next line
\* can be read.
C6_Witness ==
    /\ pc = "read" /\ invoked.outcome = "ValueError"
    /\ LastAnswersLine /\ LastJson.error.code = -32602

\* C7: every write is the JSON text followed by exactly one newline
\* character.
C7_OneLinePerResponse ==
    \A i \in 1..Len(stdout) : stdout[i].end = <<NL>>

(***************************************************************************)
(* Properties of mcp_hub.                                                  *)
(***************************************************************************)
\* The rows of a pair.
PairRows(rs, microservice_id, tool_name) ==
    {r \in rs : r.microservice_id = microservice_id /\ r.tool_name = tool_name}

\* The step in which worker w's registration commits.
RegisterCommits(w) ==
    /\ sess[w].op = "register" /\ sess[w].pc = "queried"
    /\ sess'[w] # sess[w]

\* The step in which worker w's registration is answered after its commit.
RegisterResponds(w) ==
    /\ sess[w].op = "register" /\ sess[w].pc = "committed"
    /\ sess'[w].pc = "idle"

\* What the commit of a registration does to the table, and the status it sets.
UpsertCommitted(w) ==
    LET m == sess[w].microservice_id
        n == sess[w].tool_name
        p == sess[w].payload
        before == PairRows(rows, m, n)
        after == PairRows(rows', m, n)
    IN  IF before = {}
        THEN /\ rows \subseteq rows'
             /\ Cardinality(rows') = Cardinality(rows) + 1
             /\ Cardinality(after) = 1
             /\ sess'[w].pc = "committed" /\ sess'[w].status = 201
        ELSE /\ Cardinality(rows') = Cardinality(rows)
             /\ \E r \in before, u \in after :
                   /\ u.id = r.id
                   /\ u.registered_at = r.registered_at
                   /\ u.description = p.description
                   /\ u.mcp_manifest = model_dump(p.mcp_manifest)
                   /\ u.invocation_info = p.invocation_info
                   /\ rows' \ {u} = rows \ {r}
             /\ sess'[w].pc = "committed" /\ sess'[w].status = 200

\* What the answer to a committed registration carries.
UpsertAnswered(w) ==
    /\ rows' = rows
    /\ lastResp'.op = "register"
    /\ lastResp'.status = sess[w].status
    /\ \E r \in PairRows(rows, sess[w].microservice_id, sess[w].tool_name) :
          /\ lastResp'.id = r.id
          /\ lastResp'.registered_at = r.registered_at

\* C8: with requests served one after another, POST /tools for a pair that
\* has no row adds exactly one row and answers 201; for a pair that has a row
\* it adds none, overwrites that row's description, mcp_manifest and
\* invocation_info, and answers 200 with the row's id and its original
\* registered_at.
C8_RegisterIsUpsert ==
    [][\A w \in SingleWorker :
         /\ RegisterCommits(w) => UpsertCommitted(w)
         /\ RegisterResponds(w) => UpsertAnswered(w)]_vars

\* An update answered 200 whose row was registered in an earlier second and
\* now carries the second body.
C8_Witness ==
    /\ lastResp.op = "register" /\ lastResp.status = 200
    /\ \E r \in rows :
          /\ r.id = lastResp.id
          /\ r.registered_at = lastResp.registered_at
          /\ r.description = "Updated description"
          /\ r.registered_at < r.last_heartbeat_at

\* C9: whatever register, delete and heartbeat requests have been served,
\* overlapping ones included, no two rows hold the same
\* (microservice_id, tool_name) pair.
C9_OneRowPerPair ==
    \A r1, r2 \in rows :
        (r1.microservice_id = r2.microservice_id /\ r1.tool_name = r2.tool_name)
            => r1 = r2

\* Two registrations of one pair overlapped: the second to commit got 409 and
\* the pair's row is there.
C9_Witness ==
    /\ lastResp.op = "register" /\ lastResp.status = 409
    /\ rows # {}

\* The step in which worker w's heartbeat for row r commits.
HeartbeatCommits(w, r) ==
    /\ sess[w].op = "heartbeat" /\ sess[w].pc = "queried"
    /\ sess[w].db_tool = r.id
    /\ sess'[w].pc = "committed"

\* A new row has its last_heartbeat_at set, and no step lowers a row's.
HeartbeatNeverDecreases ==
    /\ \A u \in rows' :
          (\A r \in rows : r.id # u.id) => u.last_heartbeat_at = DbNow
    /\ \A r \in rows, u \in rows' :
          u.id = r.id => u.last_heartbeat_at >= r.last_heartbeat_at

\* A heartbeat committing later than the row's last_heartbeat_at was last
\* set leaves it strictly greater.
LaterHeartbeatIsGreater ==
    \A w \in SingleWorker, r \in rows, u \in rows' :
        (HeartbeatCommits(w, r) /\ u.id = r.id
         /\ lastBeat.id = r.id /\ clock > lastBeat.tick)
            => u.last_heartbeat_at > r.last_heartbeat_at

\* C10: last_heartbeat_at is set when the row is created and never decreases,
\* and a heartbeat at a later time than the previous one leaves it strictly
\* greater.
C10_HeartbeatMonotone ==
    [][HeartbeatNeverDecreases /\ LaterHeartbeatIsGreater]_vars

\* The first half of C10 alone.
HeartbeatNeverDecreasesAlways == [][HeartbeatNeverDecreases]_vars

\* The ids in use.
IdsOf(rs) == {r.id : r \in rs}

\* C11: GET /tools/lookup with the query parameters microservice_id and
\* tool_name answers 200 with the row registered for the pair, and 404 when
\* the pair has no row.
C11_LookupAnswers ==
    [][\A w \in SingleWorker, m \in MicroserviceIds, n \in HubToolNames :
         GetTool(w, "lookup", m, n) =>
             IF PairRows(rows, m, n) = {}
             THEN lastResp'.status = 404
             ELSE /\ lastResp'.status = 200
                  /\ \E r \in PairRows(rows, m, n) :
                        /\ lastResp'.id = r.id
                        /\ lastResp'.tool_name = n
                        /\ lastResp'.microservice_id = m]_vars

\* The last answer is the 204 of the DELETE of row id i.
JustDeleted(i) ==
    lastResp.op = "delete" /\ lastResp.status = 204 /\ lastResp.id = i

\* C12: DELETE /tools/{id} of an existing row answers 204 and removes that
\* row and no other: every other row is as it was, and a GET of the id that
\* follows answers 404.
C12_DeleteRemovesTheRow ==
    [][\A w \in SingleWorker :
         /\ (DeleteCommit(w) /\ sess[w].db_tool \in IdsOf(rows)) =>
               /\ lastResp'.op = "delete" /\ lastResp'.status = 204
               /\ lastResp'.id = sess[w].db_tool
               /\ rows' = rows \ {RowWithId(rows, sess[w].db_tool)}
               /\ Cardinality(rows') = Cardinality(rows) - 1
         /\ \A i \in RowIds, m \in MicroserviceIds, n \in HubToolNames :
               (GetTool(w, Numerals[i], m, n) /\ JustDeleted(i)) =>
                   lastResp'.status = 404 /\ lastResp'.op = "get"]_vars

\* A row was deleted while another row was registered, which is still there.
C12_Witness ==
    /\ \E i \in RowIds : JustDeleted(i) /\ i \notin IdsOf(rows)
    /\ rows # {}

\* C13: a heartbeat, a get by id or a delete that names a row which does not
\* exist answers 404 and leaves the table as it was; no step of a heartbeat
\* adds a row.
C13_MissingRowIs404 ==
    [][\A w \in SingleWorker :
         /\ \A m \in MicroserviceIds, n \in HubToolNames :
               (HeartbeatQuery(w, m, n) /\ PairRows(rows, m, n) = {}) =>
                   /\ lastResp'.op = "heartbeat" /\ lastResp'.status = 404
                   /\ rows' = rows
         /\ \A i \in RowIds, m \in MicroserviceIds, n \in HubToolNames :
               (GetTool(w, Numerals[i], m, n) /\ i \notin IdsOf(rows)) =>
                   /\ lastResp'.op = "get" /\ lastResp'.status = 404
                   /\ rows' = rows
         /\ \A i \in RowIds :
               (DeleteQuery(w, i) /\ i \notin IdsOf(rows)) =>
                   /\ lastResp'.op = "delete" /\ lastResp'.status = 404
                   /\ rows' = rows
         /\ \A m \in MicroserviceIds, n \in HubToolNames :
               (HeartbeatQuery(w, m, n) \/ HeartbeatCommit(w)
                                        \/ HeartbeatRefresh(w)) =>
                   IdsOf(rows') \subseteq IdsOf(rows)]_vars

\* A heartbeat for a pair without a row was answered 404 while the table
\* held a row of the other pair.
C13_Witness ==
    /\ lastResp.op = "heartbeat" /\ lastResp.status = 404
    /\ rows # {}

(***************************************************************************)
(* Properties of py_toolbox.                                               *)
(***************************************************************************)
\* C17: acquiring a connection from a Postgres source (get_connection) or a
\* Neo4j source (driver) that is not connected, when the attempt to connect
\* fails, raises ConnectionError and not the exception of the database driver.
C17_AcquireRaisesConnectionError ==
    [][\A s \in {"pg_db", "neo4j_db"} :
         (Acquire(s, "driver_error") /\ pool[s] = NoPool) =>
             last'.raised = "ConnectionError"]_vars

\* A call that connects source s when it has to.
ConnectsSource(s, outcome) == Connect(s, outcome) \/ Acquire(s, outcome)

\* C18: a Postgres source holds a pool exactly when its most recent connect
\* succeeded and close has not been called since.  Connect on a connected
\* source constructs no second pool; a failed connect leaves no pool; close
\* leaves no pool and changes nothing when there is none; nothing else
\* changes the pool.
C18_PoolFollowsConnectAndClose ==
    [][LET s == "pg_db" IN
         /\ \A outcome \in ConnectOutcomes :
               ConnectsSource(s, outcome) =>
                   IF pool[s] # NoPool
                   THEN pool'[s] = pool[s] /\ made'[s] = made[s]
                   ELSE IF outcome = "ok"
                   THEN /\ pool'[s] # NoPool /\ made'[s] = made[s] + 1
                        /\ last'.raised = "none"
                   ELSE /\ pool'[s] = NoPool /\ made'[s] = made[s]
                        /\ last'.raised # "none"
         /\ \A outcome \in CloseOutcomes(SourceKind[s]) :
               Close(s, outcome) =>
                   /\ pool'[s] = NoPool /\ made'[s] = made[s]
                   /\ last'.raised = "none"
         /\ pool'[s] # pool[s] =>
               \/ last'.op = "finish" /\ pool'[s] = NoPool
               \/ last'.op = "close" /\ last'.name = s /\ pool'[s] = NoPool
               \/ /\ last'.op \in {"connect", "acquire"} /\ last'.name = s
                  /\ last'.raised = "none" /\ pool[s] = NoPool
               \/ /\ last'.op = "invoke" /\ last'.name = "pg_tool"
                  /\ last'.raised # "ConnectionError" /\ pool[s] = NoPool
               \/ /\ last'.op = "get_connection" /\ last'.name = s
                  /\ pool[s] = NoPool]_vars

\* The Postgres source has been connected, closed, connected again and
\* closed again.
C18_Witness ==
    /\ made["pg_db"] = 2 /\ pool["pg_db"] = NoPool
    /\ last.op = "close" /\ last.name = "pg_db"

\* C14: is_authorized(verified) of a Postgres or MySQL tool is true exactly
\* when auth_required is empty or one of its entries is in verified; so it
\* is false for an empty verified whenever auth_required is not empty.
C14_AuthorizedIffAnyVerified ==
    last.op = "is_authorized" =>
        LET auth_required == last.args[1]
            verified == last.args[2]
        IN  /\ last.authorized <=>
                  \/ Len(auth_required) = 0
                  \/ \E i \in 1..Len(auth_required), j \in 1..Len(verified) :
                        auth_required[i] = verified[j]
            /\ (Len(verified) = 0 /\ Len(auth_required) > 0) => ~last.authorized

\* A tool that requires two services was found authorized with only the
\* second of them verified.
C14_Witness ==
    /\ last.op = "is_authorized" /\ last.authorized
    /\ last.args = <<(<<"google_auth", "internal_auth">>), (<<"internal_auth">>)>>

\* An invoke of tool with the statement that gets as far as executing it.
Executes(tool, statement, execute_outcome) ==
    \E connect_outcome \in ConnectOutcomes :
        /\ Invoke(tool, statement, connect_outcome, execute_outcome)
        /\ statement # <<>>
        /\ pool[ToolSource[tool]] # NoPool \/ connect_outcome = "ok"

\* C15: when executing the statement raises a database error inside the
\* invoke of a Postgres or MySQL tool, rollback is called exactly once,
\* commit is not called, and the database error is raised to the caller.
C15_ErrorRollsBackAndReraises ==
    [][\A tool \in SqlTools, statement \in Statements :
         Executes(tool, statement, "db_error") =>
             /\ last'.rollbacks = 1
             /\ last'.commits = 0
             /\ last'.raised = DriverError(RequiredSourceKind[tool])]_vars

\* C16: an invoke of a Postgres or MySQL tool that executes its statement
\* without error commits exactly once, whatever the statement, a SELECT
\* included.
C16_SuccessCommitsOnce ==
    [][\A tool \in SqlTools, statement \in Statements :
         Executes(tool, statement, "ok") =>
             last'.commits = 1 /\ last'.raised = "none"]_vars

\* C19: when a command ends, close has been called on every initialized
\* source, whether or not one of the closes raised.
C19_EverySourceClosedAtEnd ==
    cli.pc # "running" => cli.closed = Range(initialized_sources)

\* C20: initializing a tool whose configured source name is not among the
\* initialized sources, or names a source of another kind than the tool
\* requires, raises ValueError and yields no tool.
C20_InitializeRejectsBadSource ==
    last.op = "initialize" =>
        LET source_name == last.args[1]
            sources == last.args[2]
            bad == \/ source_name \notin sources
                   \/ SourceKind[source_name] # RequiredSourceKind[last.name]
        IN  IF bad THEN last.raised = "ValueError" /\ last.value = Absent
            ELSE last.raised = "none" /\ last.value = ToolClass[last.name]

\* The Postgres tool was configured with the MySQL source, which is among
\* the initialized sources, and was refused.
C20_Witness ==
    /\ last.op = "initialize" /\ last.name = "pg_tool"
    /\ last.args[1] = "mysql_db" /\ "mysql_db" \in last.args[2]
    /\ last.raised = "ValueError"

(***************************************************************************)
(* Properties of mcp_hub: overlapping registrations of a new pair.         *)
(***************************************************************************)
\* Worker w serves a registration whose query found no row.
FoundNoRow(w) ==
    /\ sess[w].op = "register"
    /\ \/ sess[w].pc = "queried" /\ sess[w].db_tool = NoRow
       \/ sess[w].pc = "committed" /\ sess[w].status = 201

\* The registrations of w and v are for one pair and both found no row.
BothFoundNoRow(w, v) ==
    /\ w # v
    /\ FoundNoRow(w) /\ FoundNoRow(v)
    /\ sess[w].microservice_id = sess[v].microservice_id
    /\ sess[w].tool_name = sess[v].tool_name

\* The first of the two to commit inserts the pair's only row and goes on to
\* answer 201.
FirstCommitInserts(w, v) ==
    (BothFoundNoRow(w, v) /\ sess[w].pc = "queried" /\ sess[v].pc = "queried"
        /\ RegisterCommitInsert(w))
    => /\ sess'[w].pc = "committed" /\ sess'[w].status = 201
       /\ Cardinality(rows') = Cardinality(rows) + 1
       /\ Cardinality(PairRows(rows', sess[w].microservice_id,
                               sess[w].tool_name)) = 1

\* The second of the two to commit is rolled back and answered 409.  The row
\* of the first is still there: no third request has deleted it meanwhile.
SecondCommitConflicts(w, v) ==
    (BothFoundNoRow(w, v) /\ sess[w].pc = "queried" /\ sess[v].pc = "committed"
        /\ (\E r \in PairRows(rows, sess[v].microservice_id, sess[v].tool_name) :
               r.id = sess[v].db_tool)
        /\ RegisterCommitInsert(w))
    => /\ lastResp'.op = "register" /\ lastResp'.status = 409
       /\ rows' = rows
       /\ sess'[w].pc = "idle"

\* The first is answered 201 with the row it inserted, whether or not the
\* second has been answered yet.
FirstAnswers201(w, v) ==
    (sess[w].op = "register" /\ sess[w].pc = "committed" /\ sess[w].status = 201
        /\ (BothFoundNoRow(w, v) \/ sess[v].pc = "idle")
        /\ (\E r \in PairRows(rows, sess[w].microservice_id, sess[w].tool_name) :
               r.id = sess[w].db_tool)
        /\ RegisterRefresh(w))
    => /\ lastResp'.op = "register" /\ lastResp'.status = 201
       /\ lastResp'.id = sess[w].db_tool
       /\ rows' = rows

\* C25: of two overlapping registrations of one new pair that both found no
\* row, the first to commit inserts the row and is answered 201, the second
\* is rolled back and answered 409, none is answered 500 and the pair has one
\* row.
C25_OverlapIs201And409 ==
    [][\A w, v \in Workers :
         /\ FirstCommitInserts(w, v)
         /\ SecondCommitConflicts(w, v)
         /\ FirstAnswers201(w, v)]_vars

\* The second registration has just been answered 409 while the first, which
\* inserted the row, has not yet answered.
C25_Witness ==
    /\ lastResp.op = "register" /\ lastResp.status = 409
    /\ \E w \in Workers :
          /\ sess[w].op = "register" /\ sess[w].pc = "committed"
          /\ sess[w].status = 201
          /\ PairRows(rows, sess[w].microservice_id, sess[w].tool_name)
               = {RowWithId(rows, sess[w].db_tool)}

(***************************************************************************)
(* Properties of mcp-serve: authorization of invoke_tool.                  *)
(***************************************************************************)
\* The line is an invoke_tool request that gets as far as the try block: its
\* params are an object, it names a loaded tool and its arguments are an
\* object.
InvokesLoadedTool(l) ==
    /\ IsRequest(l) /\ l.method = "invoke_tool"
    /\ l.params.kind = "object"
    /\ IsStr(l.params.tool_name) /\ l.params.tool_name \in ToolNames
    /\ ArgumentsAreObject(l)

\* C26: a tool is invoked through invoke_tool only if is_authorized([]) is
\* true for it, so never when its auth_required is not empty; an invoke_tool
\* request for such a tool is answered with code -32603 and data whose reason
\* is "authorization_failed", and nothing is invoked.
C26_InvokeOnlyIfAuthorized ==
    /\ invoked # NoInvoke =>
          /\ is_authorized(invoked.tool, {})
          /\ initialized_tools[invoked.tool] = {}
    /\ (Served /\ InvokesLoadedTool(line)
           /\ initialized_tools[line.params.tool_name] # {}) =>
          /\ invoked = NoInvoke
          /\ LastAnswersLine
          /\ IsError(LastJson)
          /\ LastJson.error.code = -32603
          /\ "data" \in DOMAIN LastJson.error
          /\ LastJson.error.data.reason = "authorization_failed"

\* An invoke_tool request for the tool that requires google_auth was refused,
\* after an invoke of the tool without requirement had been served.
C26_Witness ==
    /\ Served /\ InvokesLoadedTool(line)
    /\ line.params.tool_name = "secured_tool"
    /\ Len(stdout) = 2 /\ IsSuccess(stdout[1].json)
    /\ IsError(LastJson) /\ "data" \in DOMAIN LastJson.error
    /\ LastJson.error.data.reason = "authorization_failed"

\* C27: a connection taken from the pool by get_connection has been given
\* back exactly once when the with block has ended, however the block ended,
\* and nothing is given back when no connection was taken.
C27_ConnectionGivenBackOnce ==
    last.op = "get_connection" =>
        last.putbacks = IF last.value = "conn" THEN 1 ELSE 0

(***************************************************************************)
(* Properties of py_toolbox: loading and start-up.                         *)
(***************************************************************************)
\* C30: once the sources and then the tools have been loaded, whichever
\* entries failed, every loaded tool holds a source that is among the loaded
\* sources and is of the kind the tool requires.
C30_LoadedToolsHaveTheirSource ==
    boot.pc # "group" =>
        \A tool \in DOMAIN boot.tools :
            /\ boot.tools[tool] \in boot.sources
            /\ SourceKind[boot.tools[tool]] = RequiredSourceKind[tool]

\* The MySQL source failed to initialize, so the MySQL tool that names it was
\* not loaded, while the Postgres tool was loaded with its source.
C30_Witness ==
    /\ boot.pc = "command"
    /\ boot.tool_sources = [pg_tool |-> "pg_db", mysql_tool |-> "mysql_db"]
    /\ "mysql_db" \notin boot.sources
    /\ DOMAIN boot.tools = {"pg_tool"} /\ boot.tools["pg_tool"] = "pg_db"

\* C21: when mcp-serve has started with a hub configured, a registration
\* request has been attempted for every loaded tool, whether or not requests
\* failed, and the server has gone on to serve.
C21_EveryToolRegisteredAtStart ==
    (boot.pc \in {"serving", "exited"} /\ boot.hub /\ DOMAIN boot.tools # {}) =>
        /\ boot.pc = "serving"
        /\ boot.attempted = DOMAIN boot.tools


(***************************************************************************)
(* The LlamaIndex ToolboxTool.                                             *)
(***************************************************************************)
\* The parameters of the manifest that require authentication.
ManifestAuthNames ==
    {ManifestParams[i].name :
        i \in {j \in DOMAIN ManifestParams : ManifestParams[j].authSources # {}}}

\* What bind_params does with what it is given, from the state before it.
BindParamsRaises(given, strict) ==
    LET dupe == given \cap li.tool.bound_params
        auth == given \cap ManifestAuthNames
        absent == given \ NamesOf(li.tool.schema)
    IN  /\ dupe # {} \/ auth # {} => li'.last.raised = "ValueError"
        /\ dupe = {} /\ auth = {} /\ absent # {} =>
              IF strict THEN li'.last.raised = "ValueError"
              ELSE li'.last.raised = "none" /\ li'.last.warned
        /\ dupe = {} /\ auth = {} /\ absent = {} =>
              li'.last.raised = "none" /\ ~li'.last.warned

\* C22: bind_params raises ValueError when a given parameter is already
\* bound or is an authentication parameter, whatever strict is; for a given
\* parameter that is not in the schema it raises ValueError when strict is
\* true and only warns when strict is false.
C22_BindParamsErrors ==
    [][\A given \in SUBSET GivenNames, strict \in BOOLEAN :
          LiBindParams(given, strict) => BindParamsRaises(given, strict)]_vars

\* bind_params without strict has only warned about an unknown parameter, on
\* a tool that has bound parameters.
C22_Witness ==
    /\ li.last.op = "bind_params"
    /\ ~li.last.strict
    /\ li.last.given = {"page"}
    /\ li.last.raised = "none"
    /\ li.last.warned
    /\ li.tool.bound_params # {}

\* The authentication parameters that have none of their permitted sources
\* registered.
Unauthenticated ==
    {i \in DOMAIN ManifestParams :
        /\ ManifestParams[i].authSources # {}
        /\ ManifestParams[i].authSources \cap li.tool.auth_tokens = {}}

\* C23: invoking the tool raises PermissionError and sends no request when
\* some authentication parameter has none of its permitted sources
\* registered; one registered source for each such parameter lets the call
\* go on.
C23_InvokeNeedsOneSourcePerParam ==
    li.last.op = "invoke" =>
        IF Unauthenticated # {}
        THEN li.last.raised = "PermissionError" /\ ~li.last.sent
        ELSE li.last.raised # "PermissionError"

\* A call went out with one source registered, which serves both
\* authentication parameters.
C23_Witness ==
    /\ li.last.op = "invoke"
    /\ li.last.sent
    /\ li.tool.auth_tokens = {"internal_auth"}

\* C28: a bind_params or add_auth_tokens call that raises ValueError leaves
\* the bound parameters, the auth tokens and the schema as they were.
C28_RaisingCallChangesNothing ==
    [][(/\ li.built
        /\ li'.last.op \in {"bind_params", "add_auth_tokens"}
        /\ li'.last.raised = "ValueError")
          => /\ li'.tool.bound_params = li.tool.bound_params
             /\ li'.tool.auth_tokens = li.tool.auth_tokens
             /\ li'.tool.schema = li.tool.schema]_vars

\* C29: the schema of a constructed tool holds no bound parameter and no
\* parameter that requires authentication, and no parameter is both bound
\* and an authentication parameter.
C29_SchemaExcludesBoundAndAuth ==
    li.built =>
        /\ NamesOf(li.tool.schema) \cap li.tool.bound_params = {}
        /\ \A i \in DOMAIN li.tool.schema : li.tool.schema[i].authSources = {}
        /\ NamesOf(li.tool.schema) \cap ManifestAuthNames = {}
        /\ li.tool.bound_params \cap (DOMAIN li.tool.auth_params \cup ManifestAuthNames) = {}

\* Every plain parameter is bound, sources are registered, and the last call
\* raised.
C29_Witness ==
    /\ li.built
    /\ li.tool.bound_params = {"city", "limit"}
    /\ li.tool.auth_tokens # {}
    /\ li.tool.schema = << >>
    /\ li.last.raised = "ValueError"


(***************************************************************************)
(* The LangChain ToolboxTool.                                              *)
(***************************************************************************)
\* The state of a tool: its bound parameters, auth tokens and schema.
LcStateOf(async_tool) ==
    [bound_params |-> async_tool["_AsyncToolboxTool__bound_params"],
     auth_tokens |-> async_tool["_AsyncToolboxTool__auth_tokens"],
     schema |-> async_tool["_AsyncToolboxTool__schema"]]

\* A call of one of the four methods that the AsyncToolboxTool accepted.
LcAcceptedCall ==
    /\ lc.built
    /\ lc'.last.op \in {"bind_params", "add_auth_tokens"}
    /\ lc'.last.inner = "none"

\* C24: add_auth_tokens, add_auth_token, bind_params and bind_param return a
\* new ToolboxTool and leave the tool they were called on unchanged.
C24_MethodsReturnNewTool ==
    [][LcAcceptedCall =>
          /\ lc'.last.raised = "none"
          /\ lc'.last.returned # Absent
          /\ LcStateOf(lc'.async_tool) = LcStateOf(lc.async_tool)]_vars

====
